---- MODULE Spec2Model ----
(***************************************************************************)
(* Model of the task orchestrator of agentprovision                        *)
(* (src/agentprovision/core/services/agent_orchestrator.py).               *)
(*                                                                         *)
(* The orchestrator runs on one asyncio event loop: a coroutine runs       *)
(* without interruption until it awaits something that really suspends.    *)
(* _validate_task, _can_schedule_task, _find_best_agent,                   *)
(* _assign_task_to_agent and _signal_task_cancellation never suspend, so   *)
(* submit_task, cancel_task, scale_agent and one whole pass of             *)
(* _schedule_next_tasks are each one atomic step.  _execute_task suspends  *)
(* once, at its "await asyncio.sleep(2)", so it is two steps.              *)
(* The model covers the orchestrator while it is started (main.py starts   *)
(* it when the application starts): the scheduler loop is running.         *)
(***************************************************************************)
EXTENDS Integers, Sequences, FiniteSets, Bags, TLC

\* ------------------------------------------------------------------ bounds
NumTasks == 2
NumTenants == 2
MaxRetries == 1
MaxScale == 1

\* -------------------------------------------------------- program constants
DefaultMaxConcurrentTasks == 5

TaskIds == 1..NumTasks
TenantIds == 1..NumTenants

CRITICAL == "critical"
HIGH == "high"
NORMAL == "normal"
LOW == "low"
TaskPriority == {LOW, NORMAL, HIGH, CRITICAL}

PENDING == "pending"
ASSIGNED == "assigned"
RUNNING == "running"
COMPLETED == "completed"
FAILED == "failed"
CANCELLED == "cancelled"
TaskStatus == {PENDING, ASSIGNED, RUNNING, COMPLETED, FAILED, CANCELLED}

\* assigned_agent_id: Optional[int] = None
None == 0

VARIABLES
    tasks,                \* the AgentTask objects that were enqueued, by id
    task_queue,           \* priority -> sequence of task ids
    agent_capacities,     \* agent id -> AgentCapacity
    running_tasks,        \* ids of the tasks held in running_tasks
    exec_pc,              \* task id -> position of its _execute_task coroutine
    next_id,              \* the id the next AgentTask gets (uuid4 is fresh)
    ret,                  \* what the call made by the last step returned or raised
    executions,           \* task id -> number of _execute_task coroutines created for it
    now,                  \* the clock, in seconds (time.time(), datetime.utcnow())
    circuit_breakers,     \* APIGateway.circuit_breakers: endpoint -> CircuitBreakerState
    rate_limit_rules,     \* APIGateway.rate_limit_rules: rule id -> RateLimitRule
    redis_client,         \* APIGateway.redis_client is set (TRUE) or None (FALSE)
    redis,                \* the Redis server: key -> sorted set and expiry time
    requests,             \* process_request coroutines: slot -> position and locals
    consecutive,          \* endpoint -> run of equal results recorded last: n > 0 for
                          \* n successes, n < 0 for -n failures (an observation)
    admitted,             \* scope key -> bag of the times of the requests admitted
                          \* in the trailing window (an observation)
    providers,            \* LLMEngine.providers: the providers that were initialized
    models,               \* LLMEngine.models, in the order of the dict
    request_cache,        \* LLMEngine.request_cache: cache key -> LLMResponse
    routing_strategy,     \* LLMEngine.routing_strategy
    engine_running,       \* LLMEngine._engine_running
    next_cleanup,         \* when the sleep of _cleanup_cache ends (NoTime: no such task)
    calls,                \* generate coroutines: call -> position and locals
    agents,               \* AgentRuntime.agents: agent id -> the AgentInstance object
    instances,            \* the AgentInstance objects created, each with its agent
    task_objects,         \* the Task objects handed to execute_task, by id
    runtime_calls         \* suspended stop_agent, restart_agent and execute_task
                          \* coroutines: slot -> position and locals

orchestratorVars ==
    <<tasks, task_queue, agent_capacities, running_tasks, exec_pc, next_id, executions>>

gatewayVars ==
    <<now, circuit_breakers, rate_limit_rules, redis_client, redis, requests, consecutive,
      admitted>>

llmVars ==
    <<providers, models, request_cache, routing_strategy, engine_running, next_cleanup,
      calls>>

runtimeVars == <<agents, instances, task_objects, runtime_calls>>

\* what the orchestrator does not touch
otherVars == <<gatewayVars, llmVars, runtimeVars>>

\* what the gateway does not touch
nonGatewayVars == <<orchestratorVars, llmVars, runtimeVars>>

vars == <<tasks, task_queue, agent_capacities, running_tasks, exec_pc, next_id, ret, executions,
          now, circuit_breakers, rate_limit_rules, redis_client, redis, requests,
          consecutive, admitted, providers, models, request_cache, routing_strategy,
          engine_running, next_cleanup, calls, agents, instances, task_objects,
          runtime_calls>>

NoCall == [op |-> "none"]

\* AgentTask as submit_task receives it
AgentTask(id, tenant_id, priority, max_retries, dependencies) ==
    [id |-> id, tenant_id |-> tenant_id, priority |-> priority, status |-> PENDING,
     assigned_agent_id |-> None, retry_count |-> 0, max_retries |-> max_retries,
     dependencies |-> dependencies]

AgentCapacity(agent_id) ==
    [max_concurrent_tasks |-> DefaultMaxConcurrentTasks, current_tasks |-> 0]

\* ---------------------------------------------------- gateway: bounds
\* the clock advances MaxTicks times, by ClockStep seconds each time
MaxTicks == 4
\* record_response is followed while failure_count < MaxFailures and
\* success_count < MaxSuccesses
MaxFailures == 6
MaxSuccesses == 4
\* requests_per_minute of the rules given to add_rate_limit_rule
MaxLimit == 2
\* a rate-limited request is followed while fewer than MaxAdmitted requests
\* were admitted in the trailing window
MaxAdmitted == 3
\* process_request coroutines in flight at once
NumSlots == 2

\* ------------------------------------------ gateway: program constants
\* CircuitBreakerConfig
failure_threshold == 5
recovery_timeout == 60
success_threshold == 3
\* the window of _check_redis_rate_limit: window_start = now - 60, and the
\* 60 of expire(key, 60) and of reset_time = now + 60
window_seconds == 60

ClockStep == recovery_timeout \div 2
MaxTime == MaxTicks * ClockStep
Slots == 1..NumSlots

CLOSED == "closed"
OPEN == "open"
HALF_OPEN == "half_open"

\* last_failure_time: Optional[datetime] = None
NoTime == -1

\* a Redis key without time to live
NoExpiry == -1

\* the request paths of the model, and the X-Tenant-ID headers (None: no header)
Endpoints == {"/api/v1/llm/generate"}
RequestTenantIds == {None, 1}

CircuitBreakerState(service_name) ==
    [state |-> CLOSED, failure_count |-> 0, success_count |-> 0,
     last_failure_time |-> NoTime]

\* RateLimitRule; user_specific is left out: _extract_user_id always returns
\* None, so no key ever has a user part
RateLimitRule(id, pattern, requests_per_minute, tenant_specific, enabled) ==
    [id |-> id, pattern |-> pattern, requests_per_minute |-> requests_per_minute,
     tenant_specific |-> tenant_specific, enabled |-> enabled]

\* the rules of _load_default_rules, by id
DefaultRules ==
    [id \in {"default_api", "llm_generation", "agent_execution"} |->
        CASE id = "default_api" -> RateLimitRule(id, "*", 100, TRUE, TRUE)
          [] id = "llm_generation" ->
                 RateLimitRule(id, "/api/v1/llm/generate", 20, TRUE, TRUE)
          [] id = "agent_execution" ->
                 RateLimitRule(id, "/api/v1/runtime/agents/*/execute", 50, TRUE, TRUE)]

\* a process_request coroutine that is not running
IdleRequest ==
    [pc |-> "idle", key |-> <<"", None>>, now |-> 0, limit |-> 0, current_count |-> 0]

\* APIGateway.__init__, and a Redis server without keys
GatewayInit ==
    /\ now = 0
    /\ circuit_breakers = <<>>
    /\ rate_limit_rules = <<>>
    /\ redis_client = FALSE
    /\ redis = <<>>
    /\ requests = [slot \in Slots |-> IdleRequest]
    /\ consecutive = [endpoint \in Endpoints |-> 0]
    /\ admitted = <<>>

\* -------------------------------------------------- LLM engine: bounds
\* generate coroutines in flight at once
NumCalls == 1
\* the clock of the cache scenario advances MaxCacheTicks times, by a third of
\* the cache's time to live each time
MaxCacheTicks == 6

\* ---------------------------------------- LLM engine: program constants
\* _cleanup_cache: timedelta(hours=1) and asyncio.sleep(3600), in seconds
cache_ttl == 3600
cleanup_interval == 3600
\* _try_fallback: fallback_models[:2]
max_fallbacks == 2
\* "request.max_tokens or 1000"
default_estimated_tokens == 1000
\* _should_cache_response: temperature < 0.3, in tenths
cache_temperature == 3

CacheClockStep == cache_ttl \div 3
MaxCacheTime == MaxCacheTicks * CacheClockStep
Calls == 1..NumCalls

OPENAI == "openai"
GOOGLE == "google"

\* cost_limit: Optional[float] = None
NoLimit == -1

\* LLMModel: cost_per_1k_tokens in thousandths of a dollar, availability in
\* tenths of a percent
LLMModel(id, provider, capabilities, cost_per_1k_tokens) ==
    [id |-> id, provider |-> provider, capabilities |-> capabilities,
     cost_per_1k_tokens |-> cost_per_1k_tokens, avg_latency_ms |-> 0,
     availability |-> 999, is_active |-> TRUE]

\* OpenAIProvider.get_models
OpenAIModels ==
    <<LLMModel("gpt-4", OPENAI, {"text_generation", "code_generation", "reasoning"}, 30),
      LLMModel("gpt-3.5-turbo", OPENAI, {"text_generation", "code_generation"}, 2)>>

\* GoogleProvider.get_models
GoogleModels ==
    <<LLMModel("gemini-pro", GOOGLE, {"text_generation", "code_generation", "reasoning"}, 1),
      LLMModel("gemini-pro-vision", GOOGLE, {"text_generation", "multimodal"}, 1)>>

\* LLMRequest: temperature in tenths, cost_limit in millionths of a dollar
LLMRequest(tenant_id, prompt, system_prompt, max_tokens, temperature, required_capabilities, cost_limit) ==
    [tenant_id |-> tenant_id, prompt |-> prompt, system_prompt |-> system_prompt,
     max_tokens |-> max_tokens, temperature |-> temperature,
     required_capabilities |-> required_capabilities, cost_limit |-> cost_limit]

\* LLMResponse as a provider builds it: the content stands for the request it
\* answers (its tenant and its key)
LLMResponse(request, model_used, finish_reason, created_at) ==
    [model_used |-> model_used,
     content |-> <<request.tenant_id, request.prompt, request.system_prompt,
                   request.temperature, request.max_tokens>>,
     finish_reason |-> finish_reason, cached |-> FALSE, created_at |-> created_at]

NoRequest == LLMRequest(None, "", "", None, 0, {}, NoLimit)

\* a generate coroutine that is not running
IdleCall ==
    [pc |-> "idle", request |-> NoRequest, model |-> "", fallbacks |-> <<>>,
     invoked |-> <<>>]

\* LLMEngine.__init__
EngineInit ==
    /\ providers = {}
    /\ models = <<>>
    /\ request_cache = <<>>
    /\ routing_strategy = "balanced"
    /\ engine_running = FALSE
    /\ next_cleanup = NoTime
    /\ calls = [call \in Calls |-> IdleCall]

\* ====================================================== the agent runtime
\* (src/agentprovision/core/services/agent_runtime.py and
\* src/agentprovision/core/interfaces/agent_interface.py)

\* ---------------------------------------------------------- runtime bounds
\* RuntimeConfig.max_agents of the runtime under study
max_agents == 2
\* agent objects created in one run
MaxCreations == 3
\* runtime calls that can be suspended at the same time
NumRuntimeSlots == 2
\* Task objects handed to execute_task in one run
NumRuntimeTasks == 2

\* ------------------------------------------------------- runtime constants
\* RuntimeConfig
max_cpu_cores == 8
max_memory_mb == 8192
max_storage_mb == 10240
task_timeout_seconds == 3600
\* AgentConfig
default_cpu_cores == 1
default_memory_mb == 512
default_storage_mb == 1024

\* the clock of the execution scenario advances by half the default timeout
RuntimeClockStep == task_timeout_seconds \div 2
MaxRuntimeTime == task_timeout_seconds

RuntimeSlots == 1..NumRuntimeSlots
RuntimeTaskIds == 1..NumRuntimeTasks
ObjectIds == 1..MaxCreations

\* AgentState
CREATED == "created"
INITIALIZING == "initializing"
READY == "ready"
STOPPING == "stopping"
STOPPED == "stopped"
ERROR == "error"
TERMINATED == "terminated"

\* TaskStatus.TIMEOUT
TIMEOUT == "timeout"

\* AgentRuntime.agent_classes
AgentClasses == {"full_stack", "devops"}

\* AgentConfig: the fields the runtime and the agent read
AgentConfig(id, name, agent_type, cpu_cores, memory_mb, storage_mb, max_concurrent_tasks) ==
    [id |-> id, name |-> name, agent_type |-> agent_type, cpu_cores |-> cpu_cores,
     memory_mb |-> memory_mb, storage_mb |-> storage_mb,
     max_concurrent_tasks |-> max_concurrent_tasks]

\* The AgentInstance and the agent object it holds, which are created
\* together: state is AgentInstance.state, agent_state the agent's own state,
\* current_tasks the keys of the agent's current_tasks.
AgentInstance(config, agent_state) ==
    [config |-> config, state |-> agent_state, agent_state |-> agent_state,
     restart_count |-> 0, current_tasks |-> {}]

\* a Task the caller has built: status PENDING, timeout_seconds as given
\* (None when not given)
Task(timeout_seconds) == [status |-> PENDING, timeout_seconds |-> timeout_seconds]

\* no Task object with this id exists yet
NoTask == [status |-> "none", timeout_seconds |-> None]

IdleRuntimeCall == [pc |-> "idle", op |-> "", object |-> 0, task |-> 0, deadline |-> NoTime]

\* AgentRuntime.__init__; no Task has been built
RuntimeInit ==
    /\ agents = <<>>
    /\ instances = <<>>
    /\ task_objects = [task_id \in RuntimeTaskIds |-> NoTask]
    /\ runtime_calls = [slot \in RuntimeSlots |-> IdleRuntimeCall]

Init ==
    /\ tasks = <<>>
    /\ task_queue = [p \in TaskPriority |-> <<>>]
    /\ agent_capacities = <<>>
    /\ running_tasks = {}
    /\ exec_pc = [t \in TaskIds |-> "none"]
    /\ next_id = 1
    /\ ret = NoCall
    /\ executions = [t \in TaskIds |-> 0]
    /\ GatewayInit
    /\ EngineInit
    /\ RuntimeInit

\* ------------------------------------------------------------- helpers
Max(a, b) == IF a >= b THEN a ELSE b

\* dict[key] = value on a dict modelled as a function with a growing domain
Put(f, k, v) == [x \in DOMAIN f \cup {k} |-> IF x = k THEN v ELSE f[x]]

Elems(q) == {q[i] : i \in 1..Len(q)}

\* list.remove(x): drops the first element equal to x
RECURSIVE ListRemove(_, _)
ListRemove(q, x) ==
    IF q = <<>> THEN <<>>
    ELSE IF Head(q) = x THEN Tail(q)
    ELSE <<Head(q)>> \o ListRemove(Tail(q), x)

\* the order in which the dict task_queue is iterated (its insertion order)
QueueOrder == <<CRITICAL, HIGH, NORMAL, LOW>>

Queued(queues) == UNION {Elems(queues[p]) : p \in TaskPriority}

\* ------------------------------------------------------------ submit_task
\* _validate_task: "not task.tenant_id or not task.agent_type or not task.task_type"
ValidateTask(tenant_id, agent_type, task_type) ==
    ~(tenant_id = 0 \/ agent_type = "" \/ task_type = "")

\* Line 144 evaluates self._schedule_task(task) for a critical or high task.
\* AgentOrchestrator defines no attribute _schedule_task (it defines
\* _schedule_next_tasks), so the evaluation raises AttributeError, after the
\* append of line 140 and before the return of line 146.
ImmediateScheduling(priority) ==
    IF priority \in {CRITICAL, HIGH} THEN "AttributeError" ELSE "returned"

SubmitTask(tenant_id, agent_type, task_type, priority, max_retries, dependencies) ==
    /\ IF ~ValidateTask(tenant_id, agent_type, task_type)
       THEN /\ ret' = [op |-> "submit_task", result |-> "ValueError"]
            /\ UNCHANGED <<tasks, task_queue, next_id>>
       ELSE /\ tasks' = Put(tasks, next_id,
                            AgentTask(next_id, tenant_id, priority, max_retries,
                                      dependencies))
            /\ task_queue' = [task_queue EXCEPT ![priority] = Append(@, next_id)]
            /\ next_id' = next_id + 1
            /\ ret' = [op |-> "submit_task", result |-> ImmediateScheduling(priority)]
    /\ UNCHANGED <<agent_capacities, running_tasks, exec_pc,
                   executions>>

\* ------------------------------------------------------------- scale_agent
ScaleAgent(agent_id, max_concurrent_tasks) ==
    /\ LET caps == IF agent_id \in DOMAIN agent_capacities
                   THEN agent_capacities
                   ELSE Put(agent_capacities, agent_id, AgentCapacity(agent_id))
       IN agent_capacities' =
              [caps EXCEPT ![agent_id].max_concurrent_tasks = max_concurrent_tasks]
    /\ ret' = [op |-> "scale_agent", result |-> TRUE]
    /\ UNCHANGED <<tasks, task_queue, running_tasks, exec_pc,
                   next_id, executions>>

\* ------------------------------------------------------------- cancel_task
\* the first queue, in the dict's order, that holds the id (0 when none does)
RECURSIVE FindQueue(_, _, _)
FindQueue(queues, task_id, i) ==
    IF i > Len(QueueOrder) THEN 0
    ELSE IF task_id \in Elems(queues[QueueOrder[i]]) THEN i
    ELSE FindQueue(queues, task_id, i + 1)

\* the cancellation without the removal of line 273
CancelQueuedKeepsTask(queues, priority, task_id) == queues

\* lines 272-273: the queued task is removed from its queue
CancelQueued(queues, priority, task_id) ==
    [queues EXCEPT ![priority] = ListRemove(@, task_id)]

CancelTask(task_id) ==
    LET i == FindQueue(task_queue, task_id, 1) IN
    /\ IF i # 0
       THEN /\ tasks' = [tasks EXCEPT ![task_id].status = CANCELLED]
            /\ task_queue' = CancelQueued(task_queue, QueueOrder[i], task_id)
            /\ ret' = [op |-> "cancel_task", task |-> task_id, result |-> TRUE]
       ELSE IF task_id \in running_tasks
       THEN /\ tasks' = [tasks EXCEPT ![task_id].status = CANCELLED]
            /\ ret' = [op |-> "cancel_task", task |-> task_id, result |-> TRUE]
            /\ UNCHANGED task_queue
       ELSE /\ ret' = [op |-> "cancel_task", task |-> task_id, result |-> FALSE]
            /\ UNCHANGED <<tasks, task_queue>>
    /\ UNCHANGED <<agent_capacities, running_tasks, exec_pc,
                   next_id, executions>>

\* ---------------------------------------------------------- get_task_status
GetTaskStatus(task_id) ==
    IF task_id \in running_tasks THEN tasks[task_id].status
    ELSE IF task_id \in Queued(task_queue) THEN tasks[task_id].status
    ELSE "not_found"

\* -------------------------------------------------- _schedule_next_tasks
\* The pass works on S = [tasks, caps, running, pc, execs]: the task objects,
\* agent_capacities, running_tasks, the coroutines created so far and the
\* count of coroutines created per task.

\* _can_schedule_task: only a dependency found in running_tasks is looked at
CanScheduleTask(S, task_id) ==
    \A dep_id \in S.tasks[task_id].dependencies :
        dep_id \in S.running => S.tasks[dep_id].status = COMPLETED

\* _find_best_agent, lines 337-341: the mock agent of the tenant, whose
\* capacity record is created when missing
MockAgentId(task) == task.tenant_id * 100

EnsureCapacity(caps, agent_id) ==
    IF agent_id \in DOMAIN caps THEN caps ELSE Put(caps, agent_id, AgentCapacity(agent_id))

\* _find_best_agent, lines 343-349: None when the agent is full
HasFreeSlot(capacity) == ~(capacity.current_tasks >= capacity.max_concurrent_tasks)

\* _assign_task_to_agent; asyncio.create_task leaves the new coroutine at its
\* first line
AssignTaskToAgent(S, task_id, agent_id) ==
    LET caps == EnsureCapacity(S.caps, agent_id) IN
    [tasks   |-> [S.tasks EXCEPT ![task_id].assigned_agent_id = agent_id,
                                 ![task_id].status = ASSIGNED],
     caps    |-> [caps EXCEPT ![agent_id].current_tasks = @ + 1],
     running |-> S.running \cup {task_id},
     pc      |-> [S.pc EXCEPT ![task_id] = "created"],
     execs   |-> [S.execs EXCEPT ![task_id] = @ + 1]]

\* lines 311-316 for the i-th and later tasks of one queue; the result is the
\* state and tasks_to_remove
RECURSIVE ScheduleQueue(_, _, _, _)
ScheduleQueue(queue, i, S, tasks_to_remove) ==
    IF i > Len(queue) THEN [S |-> S, tasks_to_remove |-> tasks_to_remove]
    ELSE LET task_id == queue[i] IN
         IF CanScheduleTask(S, task_id)
         THEN LET agent_id == MockAgentId(S.tasks[task_id])
                  S1 == [S EXCEPT !.caps = EnsureCapacity(S.caps, agent_id)]
              IN IF HasFreeSlot(S1.caps[agent_id]) /\ agent_id # None
                 THEN ScheduleQueue(queue, i + 1, AssignTaskToAgent(S1, task_id, agent_id),
                                    Append(tasks_to_remove, task_id))
                 ELSE ScheduleQueue(queue, i + 1, S1, tasks_to_remove)
         ELSE ScheduleQueue(queue, i + 1, S, tasks_to_remove)

\* lines 319-320
RECURSIVE RemoveAll(_, _)
RemoveAll(queue, tasks_to_remove) ==
    IF tasks_to_remove = <<>> THEN queue
    ELSE RemoveAll(ListRemove(queue, Head(tasks_to_remove)), Tail(tasks_to_remove))

\* the tiers, lowest first
SchedulingOrderReversed == <<LOW, NORMAL, HIGH, CRITICAL>>

\* the priorities in the order of the list of lines 301-306
SchedulingOrder == <<CRITICAL, HIGH, NORMAL, LOW>>

\* the for loop of line 301, from the i-th priority on
RECURSIVE ScheduleTiers(_, _, _)
ScheduleTiers(i, S, queues) ==
    IF i > Len(SchedulingOrder) THEN [S |-> S, queues |-> queues]
    ELSE LET priority == SchedulingOrder[i]
             r == ScheduleQueue(queues[priority], 1, S, <<>>)
         IN ScheduleTiers(i + 1, r.S,
                          [queues EXCEPT ![priority] = RemoveAll(@, r.tasks_to_remove)])

\* one iteration of the loop of _task_scheduler
SchedulerTick ==
    /\ LET r == ScheduleTiers(1, [tasks |-> tasks, caps |-> agent_capacities,
                                  running |-> running_tasks, pc |-> exec_pc,
                                  execs |-> executions], task_queue)
       IN /\ tasks' = r.S.tasks
          /\ agent_capacities' = r.S.caps
          /\ running_tasks' = r.S.running
          /\ exec_pc' = r.S.pc
          /\ executions' = r.S.execs
          /\ task_queue' = r.queues
    /\ ret' = NoCall
    /\ UNCHANGED <<next_id>>

\* ----------------------------------------------------------- _execute_task
\* lines 383-387: up to the suspension at the sleep
ExecuteStart(task_id) ==
    /\ exec_pc[task_id] = "created"
    /\ tasks' = [tasks EXCEPT ![task_id].status = RUNNING]
    /\ exec_pc' = [exec_pc EXCEPT ![task_id] = "sleeping"]
    /\ ret' = NoCall
    /\ UNCHANGED <<task_queue, agent_capacities, running_tasks, next_id, executions>>

\* the retry test, off by one
ShouldRetryOffByOne(task) == task.retry_count <= task.max_retries

\* line 407
ShouldRetry(task) == task.retry_count < task.max_retries

\* the release, as if it stood at the end of the try block instead of in the
\* finally block
ReleaseCapacityOnSuccessOnly(caps, task) ==
    IF task.status = COMPLETED /\ task.assigned_agent_id \in DOMAIN caps
    THEN [caps EXCEPT ![task.assigned_agent_id].current_tasks = Max(0, @ - 1)]
    ELSE caps

\* lines 415-418
ReleaseCapacity(caps, task) ==
    IF task.assigned_agent_id # None /\ task.assigned_agent_id \in DOMAIN caps
    THEN [caps EXCEPT ![task.assigned_agent_id].current_tasks = Max(0, @ - 1)]
    ELSE caps

\* lines 389-426, from the return of the sleep to the end of the finally
\* block. The sleep stands for the agent's execution of the task: raised is
\* whether that execution raised an Exception.
ExecuteEnd(task_id, raised) ==
    /\ exec_pc[task_id] = "sleeping"
    /\ LET task == tasks[task_id]
           retry == raised /\ ShouldRetry(task)
           after == IF ~raised THEN [task EXCEPT !.status = COMPLETED]
                    ELSE IF retry
                         THEN [task EXCEPT !.retry_count = @ + 1, !.status = PENDING]
                         ELSE [task EXCEPT !.status = FAILED]
       IN /\ tasks' = [tasks EXCEPT ![task_id] = after]
          /\ task_queue' = IF retry
                           THEN [task_queue EXCEPT ![task.priority] = Append(@, task_id)]
                           ELSE task_queue
          /\ agent_capacities' = ReleaseCapacity(agent_capacities, after)
          /\ running_tasks' = IF after.status \in {COMPLETED, FAILED, CANCELLED}
                              THEN running_tasks \ {task_id}
                              ELSE running_tasks
    /\ exec_pc' = [exec_pc EXCEPT ![task_id] = "none"]
    /\ ret' = NoCall
    /\ UNCHANGED <<next_id, executions>>

\* ---------------------------------------------------------------- Next
\* The tasks given to submit_task: every task that passes validation, and the
\* tasks that fail it (a missing tenant_id is 0, a missing string is ""),
\* whose other fields submit_task does not read.
ValidSubmissions ==
    [tenant_id : TenantIds, agent_type : {"developer"}, task_type : {"code_review"},
     priority : TaskPriority, max_retries : 0..MaxRetries,
     dependencies : SUBSET (TaskIds \ {next_id})]

InvalidSubmissions ==
    {s \in [tenant_id : {0} \cup TenantIds, agent_type : {"", "developer"},
            task_type : {"", "code_review"}, priority : {NORMAL}, max_retries : {0},
            dependencies : {{}}] :
        ~ValidateTask(s.tenant_id, s.agent_type, s.task_type)}

Submissions == ValidSubmissions \cup InvalidSubmissions

AgentIds == {tenant_id * 100 : tenant_id \in TenantIds}

\* the steps of the orchestrator leave the gateway and the LLM engine alone
Next ==
    \/ \E s \in Submissions :
          /\ next_id <= NumTasks
          /\ SubmitTask(s.tenant_id, s.agent_type, s.task_type, s.priority, s.max_retries,
                        s.dependencies)
          /\ UNCHANGED otherVars
    \/ \E agent_id \in AgentIds, max_concurrent_tasks \in 1..MaxScale :
          ScaleAgent(agent_id, max_concurrent_tasks) /\ UNCHANGED otherVars
    \/ \E task_id \in TaskIds : CancelTask(task_id) /\ UNCHANGED otherVars
    \/ SchedulerTick /\ UNCHANGED otherVars
    \/ \E task_id \in TaskIds : ExecuteStart(task_id) /\ UNCHANGED otherVars
    \/ \E task_id \in TaskIds, raised \in BOOLEAN :
          ExecuteEnd(task_id, raised) /\ UNCHANGED otherVars

Spec == Init /\ [][Next]_vars

\* ------------------------------------------------- the ordering scenario
\* One more task than in Spec, all of them of one tenant, dependency-free and
\* without retry budget: the tasks the ordering of assignments is stated for.
OrderingTaskIds == 1..(NumTasks + 1)

OrderingTenantIds == {1}

OrderingSubmissions ==
    [tenant_id : OrderingTenantIds, agent_type : {"developer"}, task_type : {"code_review"},
     priority : TaskPriority, max_retries : {0}, dependencies : {{}}]

InitOrdering ==
    /\ tasks = <<>>
    /\ task_queue = [p \in TaskPriority |-> <<>>]
    /\ agent_capacities = <<>>
    /\ running_tasks = {}
    /\ exec_pc = [t \in OrderingTaskIds |-> "none"]
    /\ next_id = 1
    /\ ret = NoCall
    /\ executions = [t \in OrderingTaskIds |-> 0]
    /\ GatewayInit
    /\ EngineInit
    /\ RuntimeInit

NextOrdering ==
    \/ \E s \in OrderingSubmissions :
          /\ next_id <= NumTasks + 1
          /\ SubmitTask(s.tenant_id, s.agent_type, s.task_type, s.priority, s.max_retries,
                        s.dependencies)
          /\ UNCHANGED otherVars
    \/ \E tenant_id \in OrderingTenantIds, max_concurrent_tasks \in 1..MaxScale :
          ScaleAgent(tenant_id * 100, max_concurrent_tasks) /\ UNCHANGED otherVars
    \/ \E task_id \in OrderingTaskIds : CancelTask(task_id) /\ UNCHANGED otherVars
    \/ SchedulerTick /\ UNCHANGED otherVars
    \/ \E task_id \in OrderingTaskIds : ExecuteStart(task_id) /\ UNCHANGED otherVars
    \/ \E task_id \in OrderingTaskIds, raised \in BOOLEAN :
          ExecuteEnd(task_id, raised) /\ UNCHANGED otherVars

SpecOrdering == InitOrdering /\ [][NextOrdering]_vars

\* ============================================================ the gateway
\* (src/agentprovision/core/services/api_gateway.py)
\* _is_circuit_breaker_open and _update_circuit_breaker never suspend, and
\* neither does _check_memory_rate_limit; _check_redis_rate_limit suspends at
\* each of its four Redis commands, which the server executes one at a time.

\* -------------------------------------------------------- the Redis server
\* the sorted set of a key at time t, as a bag of scores (the members are
\* fresh uuid4 strings)
Members(store, key, t) ==
    IF /\ key \in DOMAIN store
       /\ (store[key].expires_at = NoExpiry \/ t < store[key].expires_at)
    THEN store[key].zset
    ELSE EmptyBag

\* the keys that hold something at time t: an expired key and an empty sorted
\* set do not exist
LiveKeys(store, t) == {key \in DOMAIN store : Members(store, key, t) # EmptyBag}

DropDeadKeys(store, t) == [key \in LiveKeys(store, t) |-> store[key]]

\* ZREMRANGEBYSCORE key 0 max
ZRemRangeByScore(store, key, max, t) ==
    IF key \notin LiveKeys(store, t) THEN DropDeadKeys(store, t)
    ELSE LET zset == store[key].zset
             kept == [score \in {score \in DOMAIN zset : score > max} |-> zset[score]]
         IN DropDeadKeys([store EXCEPT ![key].zset = kept], t)

\* ZCARD key
ZCard(store, key, t) == BagCardinality(Members(store, key, t))

\* ZADD key score member, with a fresh member; a new key has no time to live
ZAdd(store, key, score, t) ==
    IF key \in LiveKeys(store, t)
    THEN DropDeadKeys([store EXCEPT ![key].zset = @ (+) SetToBag({score})], t)
    ELSE Put(DropDeadKeys(store, t), key,
             [zset |-> SetToBag({score}), expires_at |-> NoExpiry])

\* EXPIRE key seconds
Expire(store, key, seconds, t) ==
    IF key \in LiveKeys(store, t)
    THEN DropDeadKeys([store EXCEPT ![key].expires_at = t + seconds], t)
    ELSE DropDeadKeys(store, t)

\* ------------------------------------------------------ the rate limiter
\* "rule.pattern in endpoint": among the patterns and the paths of the model a
\* pattern is a part of a path only when it is the path
PatternInEndpoint(pattern, endpoint) == pattern = endpoint

\* _rule_matches_request
RuleMatchesRequest(rule, endpoint) ==
    PatternInEndpoint(rule.pattern, endpoint) \/ rule.pattern = "*"

\* the ids of applicable_rules
ApplicableRules(rules, endpoint) ==
    {id \in DOMAIN rules : rules[id].enabled /\ RuleMatchesRequest(rules[id], endpoint)}

\* min(applicable_rules, key=lambda r: r.requests_per_minute); the rules of
\* the model that apply together have different limits
MostRestrictiveRule(rules, applicable) ==
    rules[CHOOSE id \in applicable :
             \A other \in applicable :
                 rules[id].requests_per_minute <= rules[other].requests_per_minute]

\* the key of _check_redis_rate_limit: the rule and, for a tenant_specific
\* rule and a request with a tenant, the tenant
ScopeKey(rule, tenant_id) ==
    <<rule.id, IF rule.tenant_specific /\ tenant_id # None THEN tenant_id ELSE None>>

\* what process_request answered (status None: the request may proceed) and
\* the rate_limit_result it got, with the scope key and the limit of the rule
\* that was applied (NoKey and 0: none)
GatewayAnswer(status_code, key, requests_per_minute, allowed, limit, remaining, reset_time) ==
    [op |-> "process_request", status |-> status_code, key |-> key,
     requests_per_minute |-> requests_per_minute, allowed |-> allowed,
     limit |-> limit, remaining |-> remaining, reset_time |-> reset_time]

NoKey == <<"", None>>

\* observation: the requests of a scope admitted in the trailing window
AdmittedCount(adm, key) == IF key \in DOMAIN adm THEN BagCardinality(adm[key]) ELSE 0

RECURSIVE SumOver(_, _)
SumOver(adm, keys) ==
    IF keys = {} THEN 0
    ELSE LET key == CHOOSE k \in keys : TRUE
         IN BagCardinality(adm[key]) + SumOver(adm, keys \ {key})

AdmittedTotal(adm) == SumOver(adm, DOMAIN adm)

Admit(adm, key, t) ==
    Put(adm, key, (IF key \in DOMAIN adm THEN adm[key] ELSE EmptyBag) (+) SetToBag({t}))

TrailingWindow(adm, t) ==
    LET recent(key) == [s \in {s \in DOMAIN adm[key] : s > t - window_seconds} |->
                           adm[key][s]]
    IN [key \in {key \in DOMAIN adm : recent(key) # EmptyBag} |-> recent(key)]

\* ---------------------------------------------------- the circuit breaker
\* the recovery test, passing as soon as recovery_timeout seconds are reached
RecoveryElapsedAtTimeout(breaker, t) ==
    /\ breaker.last_failure_time # NoTime
    /\ t - breaker.last_failure_time >= recovery_timeout

\* lines 442-446
RecoveryElapsed(breaker, t) ==
    /\ breaker.last_failure_time # NoTime
    /\ t - breaker.last_failure_time > recovery_timeout

\* what _is_circuit_breaker_open returns
IsCircuitBreakerOpen(breakers, endpoint, t) ==
    /\ endpoint \in DOMAIN breakers
    /\ breakers[endpoint].state = OPEN
    /\ ~RecoveryElapsed(breakers[endpoint], t)

\* _is_circuit_breaker_open moves an open breaker to half_open
EntersHalfOpen(breakers, endpoint, t) ==
    /\ endpoint \in DOMAIN breakers
    /\ breakers[endpoint].state = OPEN
    /\ RecoveryElapsed(breakers[endpoint], t)

\* what _is_circuit_breaker_open leaves in circuit_breakers
ProbeCircuitBreaker(breakers, endpoint, t) ==
    IF EntersHalfOpen(breakers, endpoint, t)
    THEN [breakers EXCEPT ![endpoint].state = HALF_OPEN, ![endpoint].success_count = 0]
    ELSE breakers

\* lines 461-472
RecordFailure(breaker, t) ==
    LET counted == [breaker EXCEPT !.failure_count = @ + 1, !.last_failure_time = t,
                                   !.success_count = 0]
    IN IF counted.state = CLOSED /\ counted.failure_count >= failure_threshold
       THEN [counted EXCEPT !.state = OPEN]
       ELSE counted

\* the success branch, closing a half_open breaker at its first success
RecordSuccessClosesAtOnce(breaker) ==
    LET counted == [breaker EXCEPT !.success_count = @ + 1]
    IN IF counted.state = HALF_OPEN
       THEN [counted EXCEPT !.state = CLOSED, !.failure_count = 0]
       ELSE counted

\* lines 473-484
RecordSuccess(breaker) ==
    LET counted == [breaker EXCEPT !.success_count = @ + 1]
    IN IF counted.state = HALF_OPEN /\ counted.success_count >= success_threshold
       THEN [counted EXCEPT !.state = CLOSED, !.failure_count = 0]
       ELSE counted

\* _update_circuit_breaker
UpdateCircuitBreaker(breakers, endpoint, is_failure, t) ==
    LET known == IF endpoint \in DOMAIN breakers THEN breakers
                 ELSE Put(breakers, endpoint, CircuitBreakerState(endpoint))
    IN [known EXCEPT ![endpoint] = IF is_failure THEN RecordFailure(@, t)
                                   ELSE RecordSuccess(@)]

\* the breaker of an endpoint, one that was never created being closed
BreakerOf(breakers, endpoint) ==
    IF endpoint \in DOMAIN breakers THEN breakers[endpoint]
    ELSE CircuitBreakerState(endpoint)

\* ------------------------------------------------------- gateway handlers
\* start_gateway: aioredis.from_url either gives a client, kept whatever the
\* ping says, or raises and leaves redis_client as it was; then the default
\* rules are stored under their ids
StartGateway(client_created) ==
    /\ redis_client' = (redis_client \/ client_created)
    /\ rate_limit_rules' = [id \in DOMAIN DefaultRules \cup DOMAIN rate_limit_rules |->
                               IF id \in DOMAIN DefaultRules THEN DefaultRules[id]
                               ELSE rate_limit_rules[id]]
    /\ ret' = NoCall
    /\ UNCHANGED <<now, circuit_breakers, redis, requests, consecutive, admitted>>

\* add_rate_limit_rule
AddRateLimitRule(rule) ==
    /\ rate_limit_rules' = Put(rate_limit_rules, rule.id, rule)
    /\ ret' = NoCall
    /\ UNCHANGED <<now, circuit_breakers, redis_client, redis, requests, consecutive,
                   admitted>>

\* remove_rate_limit_rule
RemoveRateLimitRule(rule_id) ==
    /\ rate_limit_rules' = [id \in DOMAIN rate_limit_rules \ {rule_id} |->
                               rate_limit_rules[id]]
    /\ ret' = NoCall
    /\ UNCHANGED <<now, circuit_breakers, redis_client, redis, requests, consecutive,
                   admitted>>

\* process_request up to its first suspension: the circuit breaker, the
\* choice of the rule, and with Redis the sending of the first command; without
\* Redis the whole call
ProcessRequest(slot, endpoint, tenant_id) ==
    /\ requests[slot].pc = "idle"
    /\ circuit_breakers' = ProbeCircuitBreaker(circuit_breakers, endpoint, now)
    /\ consecutive' = IF EntersHalfOpen(circuit_breakers, endpoint, now)
                      THEN [consecutive EXCEPT ![endpoint] = IF @ > 0 THEN 0 ELSE @]
                      ELSE consecutive
    /\ IF IsCircuitBreakerOpen(circuit_breakers, endpoint, now)
       THEN /\ ret' = GatewayAnswer(503, NoKey, 0, FALSE, 0, 0, 0)
            /\ UNCHANGED <<redis, requests, admitted>>
       ELSE LET applicable == ApplicableRules(rate_limit_rules, endpoint) IN
            IF applicable = {}
            THEN /\ ret' = GatewayAnswer(None, NoKey, 0, TRUE, 0, 0, 0)
                 /\ UNCHANGED <<redis, requests, admitted>>
            ELSE LET rule == MostRestrictiveRule(rate_limit_rules, applicable)
                     key == ScopeKey(rule, tenant_id)
                 IN /\ AdmittedTotal(admitted) < MaxAdmitted
                    /\ IF redis_client
                       THEN /\ requests' = [requests EXCEPT ![slot] =
                                   [pc |-> "zremrangebyscore", key |-> key, now |-> now,
                                    limit |-> rule.requests_per_minute,
                                    current_count |-> 0]]
                            /\ ret' = NoCall
                            /\ UNCHANGED <<redis, admitted>>
                       ELSE \* _check_memory_rate_limit
                            /\ ret' = GatewayAnswer(None, key, rule.requests_per_minute, TRUE,
                                                    rule.requests_per_minute,
                                                    rule.requests_per_minute, 0)
                            /\ admitted' = Admit(admitted, key, now)
                            /\ UNCHANGED <<redis, requests>>
    /\ UNCHANGED <<now, rate_limit_rules, redis_client>>

\* line 389: the server executes zremrangebyscore(key, 0, window_start)
RedisZremrangebyscore(slot) ==
    /\ requests[slot].pc = "zremrangebyscore"
    /\ redis' = ZRemRangeByScore(redis, requests[slot].key,
                                 requests[slot].now - window_seconds, now)
    /\ requests' = [requests EXCEPT ![slot].pc = "zcard"]
    /\ ret' = NoCall
    /\ UNCHANGED <<now, circuit_breakers, rate_limit_rules, redis_client, consecutive,
                   admitted>>

\* lines 392-400: the server executes zcard(key); a full window is answered
\* with 429
RedisZcard(slot) ==
    /\ requests[slot].pc = "zcard"
    /\ LET r == requests[slot]
           current_count == ZCard(redis, r.key, now)
       IN IF current_count >= r.limit
          THEN /\ ret' = GatewayAnswer(429, r.key, r.limit, FALSE, r.limit, 0,
                                       r.now + window_seconds)
               /\ requests' = [requests EXCEPT ![slot] = IdleRequest]
          ELSE /\ ret' = NoCall
               /\ requests' = [requests EXCEPT ![slot].pc = "zadd",
                                               ![slot].current_count = current_count]
    /\ UNCHANGED <<now, circuit_breakers, rate_limit_rules, redis_client, redis,
                   consecutive, admitted>>

\* line 403: the server executes zadd(key, {uuid4: now})
RedisZadd(slot) ==
    /\ requests[slot].pc = "zadd"
    /\ redis' = ZAdd(redis, requests[slot].key, requests[slot].now, now)
    /\ requests' = [requests EXCEPT ![slot].pc = "expire"]
    /\ ret' = NoCall
    /\ UNCHANGED <<now, circuit_breakers, rate_limit_rules, redis_client, consecutive,
                   admitted>>

\* lines 404-411: the server executes expire(key, 60) and the request is let
\* through
RedisExpire(slot) ==
    /\ requests[slot].pc = "expire"
    /\ LET r == requests[slot]
       IN /\ redis' = Expire(redis, r.key, window_seconds, now)
          /\ ret' = GatewayAnswer(None, r.key, r.limit, TRUE, r.limit,
                                  r.limit - r.current_count - 1, r.now + window_seconds)
          /\ admitted' = Admit(admitted, r.key, r.now)
    /\ requests' = [requests EXCEPT ![slot] = IdleRequest]
    /\ UNCHANGED <<now, circuit_breakers, rate_limit_rules, redis_client, consecutive>>

\* lines 413-416: a Redis command raises (the server cannot be reached) and
\* the request is let through
RedisError(slot) ==
    /\ requests[slot].pc \in {"zremrangebyscore", "zcard", "zadd", "expire"}
    /\ ret' = GatewayAnswer(None, requests[slot].key, requests[slot].limit, TRUE, 0, 0, 0)
    /\ admitted' = Admit(admitted, requests[slot].key, requests[slot].now)
    /\ requests' = [requests EXCEPT ![slot] = IdleRequest]
    /\ UNCHANGED <<now, circuit_breakers, rate_limit_rules, redis_client, redis,
                   consecutive>>

\* record_response: _update_circuit_breaker(endpoint, status_code >= 500).
\* The request_metrics list it appends to is read by get_metrics only and is
\* left out.
RecordResponse(endpoint, is_failure) ==
    /\ IF is_failure
       THEN BreakerOf(circuit_breakers, endpoint).failure_count < MaxFailures
       ELSE BreakerOf(circuit_breakers, endpoint).success_count < MaxSuccesses
    /\ circuit_breakers' = UpdateCircuitBreaker(circuit_breakers, endpoint, is_failure, now)
    /\ consecutive' = [consecutive EXCEPT ![endpoint] =
                          IF is_failure THEN (IF @ < 0 THEN @ - 1 ELSE -1)
                          ELSE (IF @ > 0 THEN @ + 1 ELSE 1)]
    /\ ret' = NoCall
    /\ UNCHANGED <<now, rate_limit_rules, redis_client, redis, requests, admitted>>

\* step seconds pass, up to the time until; Redis drops the keys whose time
\* to live is over
Advance(step, until) ==
    /\ now < until
    /\ now' = now + step
    /\ redis' = DropDeadKeys(redis, now')
    /\ admitted' = TrailingWindow(admitted, now')
    /\ ret' = NoCall
    /\ UNCHANGED <<circuit_breakers, rate_limit_rules, redis_client, requests, consecutive>>

\* ------------------------------------------------ the gateway's scenarios
\* the rules given to add_rate_limit_rule: a rule for every path, stricter
\* than the default rules, enabled or not
AddedRules ==
    {RateLimitRule("strict", "*", MaxLimit, TRUE, enabled) : enabled \in BOOLEAN}

\* The circuit breaker: a gateway started with Redis, one tenant's requests,
\* one at a time, and the responses recorded for them.
BreakerSlots == {1}

NextBreaker ==
    \/ StartGateway(TRUE) /\ UNCHANGED nonGatewayVars
    \/ \E slot \in BreakerSlots, endpoint \in Endpoints :
          ProcessRequest(slot, endpoint, 1) /\ UNCHANGED nonGatewayVars
    \/ \E slot \in BreakerSlots : RedisZremrangebyscore(slot) /\ UNCHANGED nonGatewayVars
    \/ \E slot \in BreakerSlots : RedisZcard(slot) /\ UNCHANGED nonGatewayVars
    \/ \E slot \in BreakerSlots : RedisZadd(slot) /\ UNCHANGED nonGatewayVars
    \/ \E slot \in BreakerSlots : RedisExpire(slot) /\ UNCHANGED nonGatewayVars
    \/ \E endpoint \in Endpoints, is_failure \in BOOLEAN :
          RecordResponse(endpoint, is_failure) /\ UNCHANGED nonGatewayVars
    \/ Advance(ClockStep, MaxTime) /\ UNCHANGED nonGatewayVars

SpecBreaker == Init /\ [][NextBreaker]_vars

\* The rate limiter: the gateway with either store, rules added and removed,
\* requests with and without tenant, one at a time; no response is recorded,
\* so that the circuit breakers stay closed.
RateLimitSlots == {1}

NextRateLimit ==
    \/ \E client_created \in BOOLEAN :
          StartGateway(client_created) /\ UNCHANGED nonGatewayVars
    \/ \E rule \in AddedRules : AddRateLimitRule(rule) /\ UNCHANGED nonGatewayVars
    \/ RemoveRateLimitRule("strict") /\ UNCHANGED nonGatewayVars
    \/ \E slot \in RateLimitSlots, endpoint \in Endpoints, tenant_id \in RequestTenantIds :
          ProcessRequest(slot, endpoint, tenant_id) /\ UNCHANGED nonGatewayVars
    \/ \E slot \in RateLimitSlots : RedisZremrangebyscore(slot) /\ UNCHANGED nonGatewayVars
    \/ \E slot \in RateLimitSlots : RedisZcard(slot) /\ UNCHANGED nonGatewayVars
    \/ \E slot \in RateLimitSlots : RedisZadd(slot) /\ UNCHANGED nonGatewayVars
    \/ \E slot \in RateLimitSlots : RedisExpire(slot) /\ UNCHANGED nonGatewayVars
    \/ \E slot \in RateLimitSlots : RedisError(slot) /\ UNCHANGED nonGatewayVars
    \/ Advance(ClockStep, window_seconds) /\ UNCHANGED nonGatewayVars

SpecRateLimit == Init /\ [][NextRateLimit]_vars

\* Concurrent checks: a gateway started with Redis, the strict rule, and one
\* tenant's requests, all made after the start, whose Redis commands
\* interleave; the clock stands still.
NextRedisRace ==
    \/ StartGateway(TRUE) /\ UNCHANGED nonGatewayVars
    \/ AddRateLimitRule(RateLimitRule("strict", "*", MaxLimit, TRUE, TRUE))
          /\ UNCHANGED nonGatewayVars
    \/ \E slot \in Slots, endpoint \in Endpoints :
          redis_client /\ ProcessRequest(slot, endpoint, 1) /\ UNCHANGED nonGatewayVars
    \/ \E slot \in Slots : RedisZremrangebyscore(slot) /\ UNCHANGED nonGatewayVars
    \/ \E slot \in Slots : RedisZcard(slot) /\ UNCHANGED nonGatewayVars
    \/ \E slot \in Slots : RedisZadd(slot) /\ UNCHANGED nonGatewayVars
    \/ \E slot \in Slots : RedisExpire(slot) /\ UNCHANGED nonGatewayVars

SpecRedisRace == Init /\ [][NextRedisRace]_vars

\* ========================================================= the LLM engine
\* (src/agentprovision/core/services/llm_engine.py)
\* generate runs without suspension up to provider.generate (health_check
\* never suspends), is suspended while the provider works, and then runs on to
\* its return or to the next provider call. usage_metrics, which generate
\* only adds to, and the availability that _update_model_metrics rewrites
\* with the value it has, are left out.

\* _generate_cache_key: the fields that are dumped and hashed; different
\* texts are taken to have different hashes
CacheKey(request) ==
    <<request.prompt, request.system_prompt, request.temperature, request.max_tokens>>

\* all(cap in model.capabilities for cap in request.required_capabilities)
HasCapabilities(model, request) == request.required_capabilities \subseteq model.capabilities

\* "if request.cost_limit:": None and 0 both count as no limit
CostLimitIsSet(request) == request.cost_limit # NoLimit /\ request.cost_limit # 0

\* (request.max_tokens or 1000) / 1000 * model.cost_per_1k_tokens, in
\* millionths of a dollar
EstimatedCost(request, model) ==
    (IF request.max_tokens # None THEN request.max_tokens ELSE default_estimated_tokens)
        * model.cost_per_1k_tokens

\* lines 529-532: the provider was stored by _initialize_providers; the
\* health_check of a stored provider returns True
ProviderAvailable(model) == model.provider \in providers

\* the tests of the loop of _select_model_and_provider
IsSuitable(model, request) ==
    /\ model.is_active
    /\ HasCapabilities(model, request)
    /\ (CostLimitIsSet(request) => EstimatedCost(request, model) <= request.cost_limit)
    /\ ProviderAvailable(model)

SuitableModels(request) == SelectSeq(models, LAMBDA model : IsSuitable(model, request))

\* score_model, in millionths
BalancedScore(model) ==
    (300000000 \div (model.cost_per_1k_tokens + 1))
        + (400000 \div (model.avg_latency_ms + 100))
        + 300 * model.availability

\* max(seq, key=...): the first of the elements with the greatest key, the
\* keys given element by element
FirstMax(seq, keys) ==
    seq[CHOOSE i \in 1..Len(seq) :
            /\ \A j \in 1..Len(seq) : keys[j] <= keys[i]
            /\ \A j \in 1..(i - 1) : keys[j] < keys[i]]

\* _apply_routing_strategy; min is max of the negated key
ApplyRoutingStrategy(suitable) ==
    CASE routing_strategy = "cost" ->
             FirstMax(suitable, [i \in 1..Len(suitable) |-> 0 - suitable[i].cost_per_1k_tokens])
      [] routing_strategy = "performance" ->
             FirstMax(suitable, [i \in 1..Len(suitable) |-> 0 - suitable[i].avg_latency_ms])
      [] routing_strategy = "availability" ->
             FirstMax(suitable, [i \in 1..Len(suitable) |-> suitable[i].availability])
      [] OTHER -> FirstMax(suitable, [i \in 1..Len(suitable) |-> BalancedScore(suitable[i])])

ModelIds(seq) == [i \in 1..Len(seq) |-> seq[i].id]

ModelById(id) == CHOOSE model \in Elems(models) : model.id = id

\* the alternatives of _try_fallback, all of them
FallbackModelsUnlimited(request, failed_model) ==
    ModelIds(SelectSeq(models, LAMBDA model : /\ model.id # failed_model
                                              /\ model.is_active
                                              /\ HasCapabilities(model, request)))

\* fallback_models[:2]
FallbackModels(request, failed_model) ==
    LET fallback_models ==
            SelectSeq(models, LAMBDA model : /\ model.id # failed_model
                                             /\ model.is_active
                                             /\ HasCapabilities(model, request))
    IN ModelIds(SubSeq(fallback_models, 1,
                       IF Len(fallback_models) < max_fallbacks THEN Len(fallback_models)
                       ELSE max_fallbacks))

\* the loop of _try_fallback passes over a model whose provider is missing
RECURSIVE SkipUnavailable(_)
SkipUnavailable(ids) ==
    IF ids = <<>> THEN <<>>
    ELSE IF ProviderAvailable(ModelById(Head(ids))) THEN ids
    ELSE SkipUnavailable(Tail(ids))

\* _should_cache_response
ShouldCacheResponse(request, response) ==
    request.temperature < cache_temperature /\ response.finish_reason = "stop"

\* the cached response, handed out as it is stored
HandOutAsStored(response) == response

\* line 451: cached_response.cached = True, on the stored object
MarkCached(response) == [response EXCEPT !.cached = TRUE]

NoResponse == LLMResponse(NoRequest, "", "", 0)

\* what generate returned or raised, and the models whose provider it called
GenerateResult(result, request, response, invoked) ==
    [op |-> "generate", result |-> result, request |-> request, response |-> response,
     invoked |-> invoked]

\* ---------------------------------------------------- LLM engine handlers
\* start_engine with the API keys that are configured: _initialize_providers
\* and the creation of the _cleanup_cache task, which runs at once. The engine
\* is started once.
StartEngine(openai_api_key, google_api_key) ==
    /\ ~engine_running
    /\ engine_running' = TRUE
    /\ providers' = providers \cup (IF openai_api_key THEN {OPENAI} ELSE {})
                              \cup (IF google_api_key THEN {GOOGLE} ELSE {})
    /\ models' = (IF openai_api_key THEN OpenAIModels ELSE <<>>)
                     \o (IF google_api_key THEN GoogleModels ELSE <<>>)
    /\ next_cleanup' = now
    /\ ret' = NoCall
    /\ UNCHANGED <<request_cache, routing_strategy, calls>>

\* valid_strategies
RoutingStrategies == {"balanced", "cost", "performance", "availability"}

\* set_routing_strategy
SetRoutingStrategy(strategy) ==
    /\ IF strategy \in RoutingStrategies
       THEN /\ routing_strategy' = strategy
            /\ ret' = [op |-> "set_routing_strategy", result |-> "returned"]
       ELSE /\ routing_strategy' = routing_strategy
            /\ ret' = [op |-> "set_routing_strategy", result |-> "ValueError"]
    /\ UNCHANGED <<providers, models, request_cache, engine_running, next_cleanup, calls>>

\* generate, lines 448-466: the cache, the selection, and the call of the
\* selected model's provider
Generate(call, request) ==
    /\ calls[call].pc = "idle"
    /\ LET cache_key == CacheKey(request) IN
       IF cache_key \in DOMAIN request_cache
       THEN /\ request_cache' = [request_cache EXCEPT ![cache_key] = MarkCached(@)]
            /\ ret' = GenerateResult("returned", request, request_cache'[cache_key], <<>>)
            /\ UNCHANGED calls
       ELSE LET suitable_models == SuitableModels(request) IN
            IF suitable_models = <<>>
            THEN /\ ret' = GenerateResult("no suitable model", request, NoResponse, <<>>)
                 /\ UNCHANGED <<request_cache, calls>>
            ELSE LET selected_model == ApplyRoutingStrategy(suitable_models)
                 IN /\ calls' = [calls EXCEPT ![call] =
                            [pc |-> "primary", request |-> request,
                             model |-> selected_model.id, fallbacks |-> <<>>,
                             invoked |-> <<selected_model.id>>]]
                    /\ ret' = NoCall
                    /\ UNCHANGED request_cache
    /\ UNCHANGED <<providers, models, routing_strategy, engine_running, next_cleanup>>

\* the finish reasons a provider reports: GoogleProvider always "stop"
FinishReasons(model) ==
    IF ModelById(model).provider = GOOGLE THEN {"stop"} ELSE {"stop", "length"}

\* provider.generate returns: lines 468-478 for the selected model (the
\* response is cached if appropriate), lines 585-587 for a fallback model
ProviderReturns(call, finish_reason) ==
    /\ calls[call].pc \in {"primary", "fallback"}
    /\ finish_reason \in FinishReasons(calls[call].model)
    /\ LET c == calls[call]
           response == LLMResponse(c.request, c.model, finish_reason, now)
       IN /\ request_cache' = IF c.pc = "primary" /\ ShouldCacheResponse(c.request, response)
                              THEN Put(request_cache, CacheKey(c.request), response)
                              ELSE request_cache
          /\ ret' = GenerateResult("returned", c.request, response, c.invoked)
    /\ calls' = [calls EXCEPT ![call] = IdleCall]
    /\ UNCHANGED <<providers, models, routing_strategy, engine_running, next_cleanup>>

\* provider.generate raises: lines 480-489 and _try_fallback for the selected
\* model, lines 588-594 for a fallback model; the next alternative is called,
\* or the error of the selected model is raised
ProviderRaises(call) ==
    /\ calls[call].pc \in {"primary", "fallback"}
    /\ LET c == calls[call]
           alternatives == SkipUnavailable(IF c.pc = "primary"
                                           THEN FallbackModels(c.request, c.model)
                                           ELSE c.fallbacks)
       IN IF alternatives = <<>>
          THEN /\ ret' = GenerateResult("provider error", c.request, NoResponse, c.invoked)
               /\ calls' = [calls EXCEPT ![call] = IdleCall]
          ELSE /\ ret' = NoCall
               /\ calls' = [calls EXCEPT ![call] =
                       [c EXCEPT !.pc = "fallback", !.model = Head(alternatives),
                                 !.fallbacks = Tail(alternatives),
                                 !.invoked = Append(@, Head(alternatives))]]
    /\ UNCHANGED <<providers, models, request_cache, routing_strategy, engine_running,
                   next_cleanup>>

\* the sleep of _cleanup_cache is over
CleanupDue == engine_running /\ next_cleanup # NoTime /\ now >= next_cleanup

\* one pass of the loop of _cleanup_cache, up to its sleep
CleanupCache ==
    /\ CleanupDue
    /\ LET cutoff_time == now - cache_ttl
       IN request_cache' = [key \in {key \in DOMAIN request_cache :
                                        ~(request_cache[key].created_at < cutoff_time)} |->
                               request_cache[key]]
    /\ next_cleanup' = now + cleanup_interval
    /\ ret' = NoCall
    /\ UNCHANGED <<providers, models, routing_strategy, engine_running, calls>>

\* ---------------------------------------------- the LLM engine's scenarios
nonLLMVars ==
    <<orchestratorVars, circuit_breakers, rate_limit_rules, redis_client, redis,
      requests, consecutive, admitted, runtimeVars>>

\* requests of one tenant with one prompt: with and without max_tokens,
\* cacheable or not, with capabilities that all, some or one model have, and
\* with cost limits below every estimate, at an estimate, and 0
RouterRequests ==
    {LLMRequest(1, "p", "", max_tokens, temperature, required_capabilities, cost_limit) :
        max_tokens \in {None, 2000}, temperature \in {2, 3},
        required_capabilities \in {{}, {"reasoning"}, {"multimodal"}},
        cost_limit \in {NoLimit, 0, 500, 2000}}

\* The router: the engine started with any of the providers, requests,
\* providers that answer or fail, and changes of the routing strategy; the
\* clock stands still.
NextRouter ==
    \/ \E openai_api_key, google_api_key \in BOOLEAN :
          /\ StartEngine(openai_api_key, google_api_key)
          /\ UNCHANGED <<now, nonLLMVars>>
    \/ \E call \in Calls, request \in RouterRequests :
          Generate(call, request) /\ UNCHANGED <<now, nonLLMVars>>
    \/ \E call \in Calls, finish_reason \in {"stop", "length"} :
          ProviderReturns(call, finish_reason) /\ UNCHANGED <<now, nonLLMVars>>
    \/ \E call \in Calls : ProviderRaises(call) /\ UNCHANGED <<now, nonLLMVars>>
    \/ \E strategy \in RoutingStrategies \cup {"fastest"} :
          SetRoutingStrategy(strategy) /\ UNCHANGED <<now, nonLLMVars>>

SpecRouter == Init /\ [][NextRouter]_vars

\* cacheable requests of every tenant with one key
CacheRequests ==
    {LLMRequest(tenant_id, "p", "", None, 2, {}, NoLimit) : tenant_id \in TenantIds}

\* The cache: the engine started with both providers, cacheable requests,
\* providers that answer, and the clock; the cache is swept as soon as the
\* sleep of _cleanup_cache is over.
NextCache ==
    \/ StartEngine(TRUE, TRUE) /\ UNCHANGED <<now, nonLLMVars>>
    \/ \E call \in Calls, request \in CacheRequests :
          Generate(call, request) /\ UNCHANGED <<now, nonLLMVars>>
    \/ \E call \in Calls : ProviderReturns(call, "stop") /\ UNCHANGED <<now, nonLLMVars>>
    \/ CleanupCache /\ UNCHANGED <<now, nonLLMVars>>
    \/ /\ ~CleanupDue
       /\ Advance(CacheClockStep, MaxCacheTime)
       /\ UNCHANGED <<nonGatewayVars>>

SpecCache == Init /\ [][NextCache]_vars

\* ====================================================== the agent runtime
\* Of the awaits of the runtime only three suspend: the poll of
\* BaseAgent.stop while the agent has current tasks, asyncio.wait_for in
\* execute_task, and the handler of a task. _check_resource_availability,
\* initialize, get_metrics, can_accept_task, start, terminate and cancel_task
\* run to their end, so create_agent, start_agent and terminate_agent are one
\* step each.

\* the instance registered under an id
InstanceOf(agent_id) == instances[agents[agent_id]]

Registered == {InstanceOf(agent_id) : agent_id \in DOMAIN agents}

\* sum(field for i in self.agents.values())
RECURSIVE SumOfConfigs(_, _)
SumOfConfigs(ids, field) ==
    IF ids = {} THEN 0
    ELSE LET agent_id == CHOOSE agent_id \in ids : TRUE
         IN InstanceOf(agent_id).config[field] + SumOfConfigs(ids \ {agent_id}, field)

TotalDeclared(field) == SumOfConfigs(DOMAIN agents, field)

\* the check, as with enable_resource_limits = False
ResourcesUnchecked(config) == TRUE

\* _check_resource_availability with enable_resource_limits = True
CheckResourceAvailability(config) ==
    ~(\/ TotalDeclared("cpu_cores") + config.cpu_cores > max_cpu_cores
      \/ TotalDeclared("memory_mb") + config.memory_mb > max_memory_mb
      \/ TotalDeclared("storage_mb") + config.storage_mb > max_storage_mb)

\* validate_config: is_valid
ValidateConfig(config) ==
    /\ config.name # ""
    /\ config.agent_type # ""
    /\ ~(config.cpu_cores <= 0)
    /\ ~(config.memory_mb <= 0)
    /\ ~(config.max_concurrent_tasks <= 0)

\* BaseAgent.initialize: the state the new agent is left in
InitializedState(config) == IF ValidateConfig(config) THEN READY ELSE ERROR

RuntimeAnswer(op, agent_id, result) == [op |-> op, agent_id |-> agent_id, result |-> result]

\* create_agent; an existing instance with the same id is replaced in the dict
CreateAgent(config) ==
    /\ Cardinality(DOMAIN instances) < MaxCreations
    /\ LET object == Cardinality(DOMAIN instances) + 1
           raised == IF Cardinality(DOMAIN agents) >= max_agents
                         THEN "Maximum number of agents reached"
                     ELSE IF ~CheckResourceAvailability(config)
                         THEN "Insufficient resources to create agent"
                     ELSE IF config.agent_type \notin AgentClasses
                         THEN "Unsupported agent type"
                     ELSE IF InitializedState(config) # READY
                         THEN "Failed to initialize agent"
                     ELSE ""
       IN IF raised # ""
          THEN /\ ret' = RuntimeAnswer("create_agent", config.id, raised)
               /\ UNCHANGED <<agents, instances>>
          ELSE /\ instances' = Put(instances, object,
                                   AgentInstance(config, InitializedState(config)))
               /\ agents' = Put(agents, config.id, object)
               /\ ret' = RuntimeAnswer("create_agent", config.id, "returned")
    /\ UNCHANGED <<task_objects, runtime_calls>>

\* BaseAgent.start: the state after the call; it returned True when the state
\* was READY
AgentStarted(agent_state) == IF agent_state # READY THEN agent_state ELSE RUNNING

\* start_agent
StartAgent(agent_id) ==
    /\ IF agent_id \notin DOMAIN agents
       THEN /\ ret' = RuntimeAnswer("start_agent", agent_id, FALSE)
            /\ UNCHANGED instances
       ELSE LET object == agents[agent_id]
                instance == instances[object]
            IN IF instance.agent_state = READY
               THEN /\ instances' = [instances EXCEPT
                           ![object].agent_state = AgentStarted(instance.agent_state),
                           ![object].state = AgentStarted(instance.agent_state)]
                    /\ ret' = RuntimeAnswer("start_agent", agent_id, TRUE)
               ELSE /\ ret' = RuntimeAnswer("start_agent", agent_id, FALSE)
                    /\ UNCHANGED instances
    /\ UNCHANGED <<agents, task_objects, runtime_calls>>

\* BaseAgent.stop from "self.state = AgentState.STOPPED" on, followed by what
\* the caller does with the result: stop_agent copies the state and returns
\* True; restart_agent, through BaseAgent.restart, calls start, and when that
\* returned True copies the state and counts the restart
AfterStop(instance, op) ==
    LET stopped == [instance EXCEPT !.agent_state = STOPPED] IN
    IF op = "stop_agent"
    THEN [instance |-> [stopped EXCEPT !.state = STOPPED], result |-> TRUE]
    ELSE IF stopped.agent_state = READY
         THEN [instance |-> [stopped EXCEPT !.agent_state = AgentStarted(READY),
                                            !.state = AgentStarted(READY),
                                            !.restart_count = @ + 1],
               result |-> TRUE]
         ELSE [instance |-> stopped, result |-> FALSE]

\* stop_agent and restart_agent up to the first poll of BaseAgent.stop
StopOrRestartAgent(slot, op, agent_id) ==
    /\ runtime_calls[slot].pc = "idle"
    /\ IF agent_id \notin DOMAIN agents
       THEN /\ ret' = RuntimeAnswer(op, agent_id, FALSE)
            /\ UNCHANGED <<instances, runtime_calls>>
       ELSE LET object == agents[agent_id]
                instance == instances[object]
            IN IF instance.agent_state # RUNNING
               THEN /\ ret' = RuntimeAnswer(op, agent_id, FALSE)
                    /\ UNCHANGED <<instances, runtime_calls>>
               ELSE IF instance.current_tasks # {}
               THEN /\ instances' = [instances EXCEPT ![object].agent_state = STOPPING]
                    /\ runtime_calls' = [runtime_calls EXCEPT ![slot] =
                           [pc |-> "stopping", op |-> op, object |-> object, task |-> 0,
                            deadline |-> NoTime]]
                    /\ ret' = NoCall
               ELSE LET after == AfterStop(instance, op)
                    IN /\ instances' = [instances EXCEPT ![object] = after.instance]
                       /\ ret' = RuntimeAnswer(op, agent_id, after.result)
                       /\ UNCHANGED runtime_calls
    /\ UNCHANGED <<agents, task_objects>>

StopAgent(slot, agent_id) == StopOrRestartAgent(slot, "stop_agent", agent_id)

RestartAgent(slot, agent_id) == StopOrRestartAgent(slot, "restart_agent", agent_id)

\* a poll of BaseAgent.stop finds no current task
StopWaitOver(slot) ==
    /\ runtime_calls[slot].pc = "stopping"
    /\ LET call == runtime_calls[slot]
           instance == instances[call.object]
           after == AfterStop(instance, call.op)
       IN /\ instance.current_tasks = {}
          /\ instances' = [instances EXCEPT ![call.object] = after.instance]
          /\ ret' = RuntimeAnswer(call.op, instance.config.id, after.result)
    /\ runtime_calls' = [runtime_calls EXCEPT ![slot] = IdleRuntimeCall]
    /\ UNCHANGED <<agents, task_objects>>

\* terminate_agent: AgentInterface.terminate and the removal from the dict
TerminateAgent(agent_id) ==
    /\ IF agent_id \notin DOMAIN agents
       THEN /\ ret' = RuntimeAnswer("terminate_agent", agent_id, FALSE)
            /\ UNCHANGED <<agents, instances, task_objects>>
       ELSE LET object == agents[agent_id]
            IN /\ instances' = [instances EXCEPT ![object].agent_state = TERMINATED]
               /\ task_objects' = [task_id \in DOMAIN task_objects |->
                      IF task_id \in instances[object].current_tasks
                      THEN [task_objects[task_id] EXCEPT !.status = CANCELLED]
                      ELSE task_objects[task_id]]
               /\ agents' = [id \in DOMAIN agents \ {agent_id} |-> agents[id]]
               /\ ret' = RuntimeAnswer("terminate_agent", agent_id, TRUE)
    /\ UNCHANGED runtime_calls

\* AgentInterface.can_accept_task
CanAcceptTask(instance) ==
    /\ instance.agent_state \in {READY, RUNNING}
    /\ ~(Cardinality(instance.current_tasks) >= instance.config.max_concurrent_tasks)

\* TaskResult: the task and the status reported
TaskResult(task_id, status) == [op |-> "execute_task", task |-> task_id, result |-> status]

\* AgentInterface.cancel_task: only a task found in current_tasks is changed
AgentCancelTask(current_tasks, objects, task_id) ==
    IF task_id \in current_tasks
    THEN [objects EXCEPT ![task_id].status = CANCELLED]
    ELSE objects

\* execute_task, lines 752-766, for a Task the caller has just built: the
\* lookup, can_accept_task, the timeout, and asyncio.wait_for, which (up to
\* Python 3.11) wraps agent.execute(task) in a new asyncio task and suspends
\* the caller, so that execute starts at a later turn of the event loop; from
\* Python 3.12 on execute starts at once, which is the run where
\* AgentExecuteStarts is the next step.
ExecuteTask(slot, agent_id, task_id, timeout_seconds) ==
    /\ runtime_calls[slot].pc = "idle"
    /\ task_objects[task_id] = NoTask
    /\ LET task == Task(timeout_seconds) IN
       IF agent_id \notin DOMAIN agents
       THEN /\ ret' = TaskResult(task_id, "Agent not found")
            /\ task_objects' = [task_objects EXCEPT ![task_id] = task]
            /\ UNCHANGED runtime_calls
       ELSE IF ~CanAcceptTask(InstanceOf(agent_id))
       THEN /\ ret' = TaskResult(task_id, "Agent cannot accept task")
            /\ task_objects' = [task_objects EXCEPT ![task_id] = task]
            /\ UNCHANGED runtime_calls
       ELSE LET timeout == IF task.timeout_seconds # None THEN task.timeout_seconds
                           ELSE task_timeout_seconds
            IN /\ task_objects' = [task_objects EXCEPT ![task_id] =
                                      [task EXCEPT !.timeout_seconds = timeout]]
               /\ runtime_calls' = [runtime_calls EXCEPT ![slot] =
                      [pc |-> "scheduled", op |-> "execute_task", object |-> agents[agent_id],
                       task |-> task_id, deadline |-> now + timeout]]
               /\ ret' = NoCall
    /\ UNCHANGED <<agents, instances>>

\* FullStackAgent.execute and BaseAgent.execute up to the handler: the task is
\* put into current_tasks and is RUNNING
AgentExecuteStarts(slot) ==
    /\ runtime_calls[slot].pc = "scheduled"
    /\ LET call == runtime_calls[slot]
       IN /\ instances' = [instances EXCEPT ![call.object].current_tasks = @ \cup {call.task}]
          /\ task_objects' = [task_objects EXCEPT ![call.task].status = RUNNING]
    /\ runtime_calls' = [runtime_calls EXCEPT ![slot].pc = "running"]
    /\ ret' = NoCall
    /\ UNCHANGED agents

\* the handler returns or raises an Exception before the timeout: the rest of
\* execute with its finally block, and lines 768-772 of execute_task
HandlerEnds(slot, raised) ==
    /\ runtime_calls[slot].pc = "running"
    /\ now <= runtime_calls[slot].deadline
    /\ LET call == runtime_calls[slot]
           status == IF raised THEN FAILED ELSE COMPLETED
       IN /\ task_objects' = [task_objects EXCEPT ![call.task].status = status]
          /\ instances' = [instances EXCEPT ![call.object].current_tasks = @ \ {call.task}]
          /\ ret' = TaskResult(call.task, status)
    /\ runtime_calls' = [runtime_calls EXCEPT ![slot] = IdleRuntimeCall]
    /\ UNCHANGED agents

\* the timeout of wait_for passes while the handler works: wait_for cancels
\* execute, whose "except Exception" does not catch the CancelledError and
\* whose finally block pops the task; then lines 774-781 of execute_task
TaskTimesOut(slot) ==
    /\ runtime_calls[slot].pc = "running"
    /\ now >= runtime_calls[slot].deadline
    /\ LET call == runtime_calls[slot]
           popped == instances[call.object].current_tasks \ {call.task}
       IN /\ instances' = [instances EXCEPT ![call.object].current_tasks = popped]
          /\ task_objects' = AgentCancelTask(popped, task_objects, call.task)
          /\ ret' = TaskResult(call.task, TIMEOUT)
    /\ runtime_calls' = [runtime_calls EXCEPT ![slot] = IdleRuntimeCall]
    /\ UNCHANGED agents

\* no execute is waiting for its first turn, and no timeout is due
ClockMayAdvance ==
    \A slot \in RuntimeSlots :
        /\ runtime_calls[slot].pc # "scheduled"
        /\ runtime_calls[slot].pc = "running" => now < runtime_calls[slot].deadline

\* -------------------------------------------- the agent runtime's scenarios
nonRuntimeVars ==
    <<orchestratorVars, now, circuit_breakers, rate_limit_rules, redis_client, redis,
      requests, consecutive, admitted, llmVars>>

RegistryAgentIds == {"a1", "a2"}

\* the configurations given to create_agent: the default footprint, one that
\* takes a whole cap in one dimension, an unknown type and an invalid name
RegistryConfigs ==
    {AgentConfig(id, "agent", "full_stack", f[1], f[2], f[3], 1) :
        id \in RegistryAgentIds,
        f \in {<<default_cpu_cores, default_memory_mb, default_storage_mb>>,
               <<max_cpu_cores, default_memory_mb, default_storage_mb>>,
               <<default_cpu_cores, max_memory_mb, default_storage_mb>>,
               <<default_cpu_cores, default_memory_mb, max_storage_mb>>}}
    \cup {AgentConfig("a1", "agent", "unknown", default_cpu_cores, default_memory_mb,
                      default_storage_mb, 1),
          AgentConfig("a1", "", "devops", default_cpu_cores, default_memory_mb,
                      default_storage_mb, 1)}

\* The registry: agents are created, started, stopped, restarted and
\* terminated; no task is executed.
NextRegistry ==
    \/ \E config \in RegistryConfigs : CreateAgent(config) /\ UNCHANGED nonRuntimeVars
    \/ \E agent_id \in RegistryAgentIds : StartAgent(agent_id) /\ UNCHANGED nonRuntimeVars
    \/ \E agent_id \in RegistryAgentIds :
          StopAgent(1, agent_id) /\ UNCHANGED nonRuntimeVars
    \/ \E agent_id \in RegistryAgentIds :
          RestartAgent(1, agent_id) /\ UNCHANGED nonRuntimeVars
    \/ \E agent_id \in RegistryAgentIds :
          TerminateAgent(agent_id) /\ UNCHANGED nonRuntimeVars

SpecRegistry == Init /\ [][NextRegistry]_vars

ExecutionAgentIds == {"a1"}

\* one agent that runs one task at a time
ExecutionConfigs ==
    {AgentConfig("a1", "agent", "full_stack", default_cpu_cores, default_memory_mb,
                 default_storage_mb, 1)}

\* The execution: one agent with max_concurrent_tasks = 1, created once,
\* tasks with and without a timeout of their own executed concurrently, and
\* the clock.
NextExecution ==
    \/ \E config \in ExecutionConfigs :
          instances = <<>> /\ CreateAgent(config) /\ UNCHANGED nonRuntimeVars
    \/ \E agent_id \in ExecutionAgentIds : StartAgent(agent_id) /\ UNCHANGED nonRuntimeVars
    \/ \E slot \in RuntimeSlots, agent_id \in ExecutionAgentIds :
          StopAgent(slot, agent_id) /\ UNCHANGED nonRuntimeVars
    \/ \E slot \in RuntimeSlots, agent_id \in ExecutionAgentIds :
          RestartAgent(slot, agent_id) /\ UNCHANGED nonRuntimeVars
    \/ \E slot \in RuntimeSlots : StopWaitOver(slot) /\ UNCHANGED nonRuntimeVars
    \/ \E agent_id \in ExecutionAgentIds : TerminateAgent(agent_id) /\ UNCHANGED nonRuntimeVars
    \/ \E slot \in RuntimeSlots, agent_id \in ExecutionAgentIds, task_id \in RuntimeTaskIds,
          timeout_seconds \in {None, RuntimeClockStep} :
          ExecuteTask(slot, agent_id, task_id, timeout_seconds) /\ UNCHANGED nonRuntimeVars
    \/ \E slot \in RuntimeSlots : AgentExecuteStarts(slot) /\ UNCHANGED nonRuntimeVars
    \/ \E slot \in RuntimeSlots, raised \in BOOLEAN :
          HandlerEnds(slot, raised) /\ UNCHANGED nonRuntimeVars
    \/ \E slot \in RuntimeSlots : TaskTimesOut(slot) /\ UNCHANGED nonRuntimeVars
    \/ /\ ClockMayAdvance
       /\ Advance(RuntimeClockStep, MaxRuntimeTime)
       /\ UNCHANGED <<nonGatewayVars>>

SpecExecution == Init /\ [][NextExecution]_vars

\* ================================================================ claims
Terminal == {COMPLETED, FAILED, CANCELLED}

Submitted == DOMAIN tasks

\* how often an id occurs in the queues
Occurrences(queues, task_id) ==
    Cardinality({<<p, i>> \in TaskPriority \X (1..NumTasks * (MaxRetries + 2)) :
                    i <= Len(queues[p]) /\ queues[p][i] = task_id})

\* the step is the call cancel_task(task_id): every other step leaves another ret
IsCancelOf(task_id) ==
    /\ ret'.op = "cancel_task"
    /\ ret'.task = task_id

\* the step assigns the task: it leaves a queue for an agent
IsAssigned(task_id) ==
    /\ task_id \in Submitted
    /\ tasks[task_id].status # ASSIGNED
    /\ tasks'[task_id].status = ASSIGNED

\* C1: for every agent of the capacity registry, current_tasks <=
\* max_concurrent_tasks in every reachable state, scale_agent calls included.
C1_CapacityNeverExceeded ==
    \A a \in DOMAIN agent_capacities :
        agent_capacities[a].current_tasks <= agent_capacities[a].max_concurrent_tasks

\* C2: a task is never assigned while one of its dependencies is not COMPLETED,
\* whatever else the dependency is (queued, assigned, running, failed,
\* cancelled, never submitted).
C2_NoAssignmentBeforeDependencies ==
    [][\A t \in TaskIds :
          IsAssigned(t) =>
              \A d \in tasks[t].dependencies :
                  d \in Submitted /\ tasks'[d].status = COMPLETED]_vars

\* The edges of the task state machine. A failure that is retried takes
\* RUNNING -> FAILED -> PENDING within one step of the event loop, which an
\* observer sees as RUNNING -> PENDING.
StateMachineEdges ==
    {<<PENDING, ASSIGNED>>, <<ASSIGNED, RUNNING>>, <<RUNNING, COMPLETED>>,
     <<RUNNING, FAILED>>, <<RUNNING, CANCELLED>>, <<FAILED, PENDING>>,
     <<RUNNING, PENDING>>, <<PENDING, CANCELLED>>, <<ASSIGNED, CANCELLED>>}

\* C3: every change of a task's status follows an edge of the state machine;
\* in particular a CANCELLED task never becomes RUNNING or COMPLETED.
C3_StatusFollowsStateMachine ==
    [][\A t \in Submitted :
          \/ tasks'[t].status = tasks[t].status
          \/ <<tasks[t].status, tasks'[t].status>> \in StateMachineEdges]_vars

\* C4: a failed execution with retry_count < max_retries increments
\* retry_count by one, sets PENDING and appends the task to the queue of its
\* priority; with retry_count = max_retries it ends FAILED and is not queued;
\* so a task is executed at most max_retries + 1 times.
C4_RetryThenTerminalFailure ==
    /\ [][\A t \in TaskIds :
            ExecuteEnd(t, TRUE) =>
                IF tasks[t].retry_count < tasks[t].max_retries
                THEN /\ tasks'[t].retry_count = tasks[t].retry_count + 1
                     /\ tasks'[t].status = PENDING
                     /\ task_queue'[tasks[t].priority] =
                            Append(task_queue[tasks[t].priority], t)
                ELSE /\ tasks[t].retry_count = tasks[t].max_retries
                     /\ tasks'[t].retry_count = tasks[t].retry_count
                     /\ tasks'[t].status = FAILED
                     /\ t \notin Queued(task_queue')]_vars
    /\ [](\A t \in Submitted : executions[t] <= tasks[t].max_retries + 1)

\* a task that was retried and then failed for good
C4_Witness ==
    \E t \in Submitted :
        /\ tasks[t].status = FAILED
        /\ tasks[t].max_retries = MaxRetries
        /\ tasks[t].retry_count = MaxRetries
        /\ executions[t] = MaxRetries + 1

\* the tasks whose execution on the agent is in flight
InFlight(agent_id) ==
    {t \in Submitted : exec_pc[t] # "none" /\ tasks[t].assigned_agent_id = agent_id}

\* C5: every assigned task releases exactly one slot when its execution ends,
\* however it ends: an agent's current_tasks is the number of its tasks whose
\* execution is in flight, and 0 when there is none.
C5_NoCapacityLeak ==
    \A a \in DOMAIN agent_capacities :
        agent_capacities[a].current_tasks = Cardinality(InFlight(a))

\* an agent is idle again after a task of it failed for good and another ended
\* after it was cancelled
C5_Witness ==
    \E t \in Submitted :
        /\ tasks[t].status = FAILED
        /\ tasks[t].retry_count = MaxRetries
        /\ MaxRetries > 0
        /\ agent_capacities[tasks[t].assigned_agent_id].current_tasks = 0
        /\ \E u \in Submitted \ {t} :
              /\ tasks[u].assigned_agent_id = tasks[t].assigned_agent_id
              /\ tasks[u].status = COMPLETED

Rank(priority) ==
    CASE priority = CRITICAL -> 1
      [] priority = HIGH -> 2
      [] priority = NORMAL -> 3
      [] priority = LOW -> 4

Position(queue, task_id) == CHOOSE i \in 1..Len(queue) : queue[i] = task_id

\* b waits before a: in a higher tier, or earlier in the same queue
Precedes(b, a) ==
    \/ Rank(tasks[b].priority) < Rank(tasks[a].priority)
    \/ /\ tasks[b].priority = tasks[a].priority
       /\ Position(task_queue[tasks[b].priority], b)
              < Position(task_queue[tasks[a].priority], a)

\* C6: among the dependency-free tasks of one tenant, a task is never
\* assigned while a task that precedes it (tier, then position in the tier's
\* queue) is left waiting in a queue.
C6_AssignmentFollowsPriorityThenFifo ==
    [][\A a, b \in Submitted :
          (/\ a # b
           /\ tasks[a].tenant_id = tasks[b].tenant_id
           /\ tasks[a].dependencies = {} /\ tasks[b].dependencies = {}
           /\ a \in Queued(task_queue) /\ b \in Queued(task_queue)
           /\ IsAssigned(a)
           /\ Precedes(b, a))
          => b \notin Queued(task_queue')]_vars

\* capacity 1 and the submissions low, critical, normal of one tenant: the
\* critical task was executed, the normal one is assigned and the low one,
\* submitted first, still waits
C6_Witness ==
    /\ Submitted = 1..3
    /\ tasks[1].priority = LOW /\ tasks[2].priority = CRITICAL
    /\ tasks[3].priority = NORMAL
    /\ tasks[1].tenant_id = tasks[2].tenant_id /\ tasks[2].tenant_id = tasks[3].tenant_id
    /\ MockAgentId(tasks[1]) \in DOMAIN agent_capacities
    /\ agent_capacities[MockAgentId(tasks[1])].max_concurrent_tasks = 1
    /\ tasks[2].status = COMPLETED /\ executions[2] = 1
    /\ tasks[3].status = ASSIGNED /\ executions[3] = 1
    /\ tasks[1].status = PENDING /\ executions[1] = 0
    /\ 1 \in Queued(task_queue)

\* C7: submit_task on a task that passes validation returns its id without
\* raising, for every priority, and the task is then present exactly once, in
\* the queue of its priority with status PENDING.
C7_ValidSubmitReturnsId ==
    [][\A s \in ValidSubmissions :
          SubmitTask(s.tenant_id, s.agent_type, s.task_type, s.priority,
                     s.max_retries, s.dependencies) =>
              /\ ret'.result = "returned"
              /\ tasks'[next_id].status = PENDING
              /\ Occurrences(task_queue', next_id) = 1
              /\ next_id \in Elems(task_queue'[s.priority])]_vars

\* C8: whenever submit_task raises, nothing was enqueued: the queues,
\* running_tasks and the capacity registry are as before the call.
C8_RaisingSubmitEnqueuesNothing ==
    [][(ret'.op = "submit_task" /\ ret'.result # "returned") =>
          UNCHANGED <<task_queue, running_tasks, agent_capacities>>]_vars

\* C9: once a task is terminal, get_task_status reports its terminal status.
C9_TerminalStatusIsReported ==
    \A t \in Submitted :
        tasks[t].status \in Terminal => GetTaskStatus(t) = tasks[t].status

\* cancelled, in no queue and with no execution in flight
CancelledForGood(t) ==
    /\ t \in Submitted
    /\ tasks[t].status = CANCELLED
    /\ t \notin Queued(task_queue)
    /\ exec_pc[t] = "none"

WaitsFor(T2, T1) ==
    /\ T2 \in Submitted /\ T1 \in Submitted
    /\ T1 \in tasks[T2].dependencies
    /\ tasks[T2].status = PENDING
    /\ T2 \in Queued(task_queue)
    /\ tasks[T1].status # COMPLETED

\* C11: while a dependency T1 of a queued task T2 is not COMPLETED, no
\* scheduler pass takes T2 out of its queue: T2 stays PENDING in its queue
\* until T1 is completed (or T2 is cancelled by its owner).
C11_DependentWaitsForCompletion ==
    [][\A T1, T2 \in TaskIds :
          (WaitsFor(T2, T1) /\ tasks'[T1].status # COMPLETED /\ ret' = NoCall) =>
              /\ tasks'[T2].status = PENDING
              /\ T2 \in Queued(task_queue')]_vars

\* ------------------------------------------------------------ the gateway
\* C12: a closed breaker opens exactly when the failure_threshold-th
\* consecutive failure is recorded for its endpoint; failures that are
\* separated by successes do not open it.
C12_OpensAtConsecutiveFailures ==
    [][\A e \in Endpoints :
          LET before == BreakerOf(circuit_breakers, e)
              after == BreakerOf(circuit_breakers', e)
          IN (before.state = CLOSED /\ after.state = OPEN)
                 <=> (/\ before.state = CLOSED
                      /\ RecordResponse(e, TRUE)
                      /\ consecutive'[e] = -failure_threshold)]_vars

\* C13: a failure recorded while the breaker is half_open moves it to open
\* and sets its success counter to 0.
C13_HalfOpenFailureReopens ==
    [][\A e \in Endpoints :
          (BreakerOf(circuit_breakers, e).state = HALF_OPEN /\ RecordResponse(e, TRUE)) =>
              /\ BreakerOf(circuit_breakers', e).state = OPEN
              /\ BreakerOf(circuit_breakers', e).success_count = 0]_vars

\* the breaker of the endpoint is open and at most recovery_timeout seconds
\* have passed since its last failure
OpenAndNotRecovering(e) ==
    /\ e \in DOMAIN circuit_breakers
    /\ circuit_breakers[e].state = OPEN
    /\ now - circuit_breakers[e].last_failure_time <= recovery_timeout

\* C14: a request to an endpoint whose breaker is open, with recovery_timeout
\* not elapsed since the last failure, is answered 503 and touches neither the
\* rate limiter nor the breaker; a breaker leaves open only for half_open and
\* only more than recovery_timeout after its last failure; the request that
\* follows failure_threshold consecutive failures of a breaker that had no
\* other failure is rejected.
C14_OpenBreakerRejects ==
    [][\A e \in Endpoints :
          LET before == BreakerOf(circuit_breakers, e)
              after == BreakerOf(circuit_breakers', e)
          IN /\ \A slot \in Slots, tenant_id \in RequestTenantIds :
                   (OpenAndNotRecovering(e) /\ ProcessRequest(slot, e, tenant_id)) =>
                       /\ "status" \in DOMAIN ret'
                       /\ ret'.status = 503
                       /\ UNCHANGED <<circuit_breakers, redis, requests, admitted>>
             /\ (before.state = OPEN /\ after.state # OPEN) =>
                   /\ after.state = HALF_OPEN
                   /\ before.last_failure_time # NoTime
                   /\ now - before.last_failure_time > recovery_timeout
             /\ \A slot \in Slots, tenant_id \in RequestTenantIds :
                   (/\ consecutive[e] = -failure_threshold
                    /\ before.failure_count = failure_threshold
                    /\ now - before.last_failure_time <= recovery_timeout
                    /\ ProcessRequest(slot, e, tenant_id)) =>
                       /\ "status" \in DOMAIN ret'
                       /\ ret'.status = 503]_vars

\* the sixth request, rejected after five failures in a row, while the rate
\* limiter holds earlier requests
C14_Witness ==
    /\ ret.op = "process_request"
    /\ ret.status = 503
    /\ redis # <<>>
    /\ \E e \in DOMAIN circuit_breakers :
          /\ circuit_breakers[e].state = OPEN
          /\ circuit_breakers[e].failure_count = failure_threshold
          /\ consecutive[e] = -failure_threshold

\* the changes of state of a circuit breaker
BreakerEdges ==
    {<<CLOSED, OPEN>>, <<OPEN, HALF_OPEN>>, <<HALF_OPEN, CLOSED>>, <<HALF_OPEN, OPEN>>}

\* C15: a breaker becomes closed only from half_open, at a success that is at
\* least the success_threshold-th in a row since it became half_open, and its
\* failure count is then 0; every change of state is one of BreakerEdges.
C15_ClosesAfterConsecutiveSuccesses ==
    [][\A e \in Endpoints :
          LET before == BreakerOf(circuit_breakers, e)
              after == BreakerOf(circuit_breakers', e)
          IN /\ (before.state # CLOSED /\ after.state = CLOSED) =>
                   /\ before.state = HALF_OPEN
                   /\ RecordResponse(e, FALSE)
                   /\ consecutive'[e] >= success_threshold
                   /\ after.failure_count = 0
             /\ before.state # after.state =>
                   <<before.state, after.state>> \in BreakerEdges]_vars

\* a breaker that opened, recovered and closed at its third success in a row
C15_Witness ==
    \E e \in DOMAIN circuit_breakers :
        /\ circuit_breakers[e].state = CLOSED
        /\ circuit_breakers[e].last_failure_time # NoTime
        /\ circuit_breakers[e].failure_count = 0
        /\ circuit_breakers[e].success_count = success_threshold
        /\ consecutive[e] = success_threshold

\* C16: a request is admitted under a rule only if, with it, at most
\* requests_per_minute requests of its scope key were admitted in the trailing
\* 60 seconds, whichever store is used; a request that is not admitted gets 429
\* with limit = requests_per_minute, remaining = 0 and a reset time.
C16_AtMostNPerWindow ==
    [][(ret'.op = "process_request" /\ ret'.key # NoKey) =>
          IF ret'.allowed
          THEN AdmittedCount(admitted', ret'.key) <= ret'.requests_per_minute
          ELSE /\ ret'.status = 429
               /\ ret'.limit = ret'.requests_per_minute
               /\ ret'.remaining = 0
               /\ ret'.reset_time > 0]_vars

\* C17: a generate call whose key (prompt, system_prompt, temperature,
\* max_tokens) is in the cache returns the stored response, its content and
\* model unchanged, with cached = true, selects no model and calls no
\* provider; a response that comes back from a provider call has cached =
\* false.
C17_CacheHitReturnsStored ==
    [][/\ \A call \in Calls, request \in RouterRequests :
             (CacheKey(request) \in DOMAIN request_cache /\ Generate(call, request)) =>
                 LET stored == request_cache[CacheKey(request)]
                 IN /\ ret'.result = "returned"
                    /\ ret'.response.cached = TRUE
                    /\ ret'.response.content = stored.content
                    /\ ret'.response.model_used = stored.model_used
                    /\ ret'.invoked = <<>>
                    /\ calls' = calls
       /\ \A call \in Calls, finish_reason \in {"stop", "length"} :
             ProviderReturns(call, finish_reason) =>
                 /\ ret'.result = "returned"
                 /\ ret'.invoked # <<>>
                 /\ ret'.response.cached = FALSE]_vars

\* a cache hit has been returned for the request with max_tokens = 2000
C17_Witness ==
    /\ ret.op = "generate"
    /\ ret.result = "returned"
    /\ ret.invoked = <<>>
    /\ ret.response.cached = TRUE
    /\ ret.response.content = <<1, "p", "", 2, 2000>>

\* C18: a generate call whose key is in the cache with an entry older than the
\* one-hour TTL is a miss and goes to a provider, whenever the sweep ran.
C18_ExpiredEntryMisses ==
    [][\A call \in Calls, request \in CacheRequests :
          (/\ CacheKey(request) \in DOMAIN request_cache
           /\ now - request_cache[CacheKey(request)].created_at > cache_ttl
           /\ Generate(call, request)) =>
              /\ calls'[call].pc = "primary"
              /\ ret' = NoCall]_vars

\* the models of a call's fallback chain that were called after the selected one
Alternates(invoked) == SubSeq(invoked, 2, Len(invoked))

\* C19: one generate call that misses the cache calls providers at most three
\* times (the selected model and at most two alternates) and never the same
\* model twice; every alternate is active and has the required capabilities;
\* an alternate is called only when the model before it failed; the error
\* reaches the caller only when the last model tried failed and nothing is
\* left to try; a model that succeeds ends the call with its response.
C19_FallbackChain ==
    [][\A call \in Calls :
          LET before == calls[call]
              after == calls'[call]
          IN /\ Len(after.invoked) <= 1 + max_fallbacks
             /\ \A i, j \in 1..Len(after.invoked) :
                   i # j => after.invoked[i] # after.invoked[j]
             /\ \A id \in Elems(Alternates(after.invoked)) :
                   /\ ModelById(id).is_active
                   /\ after.request.required_capabilities \subseteq ModelById(id).capabilities
             /\ (before.pc # "idle" /\ after.pc # "idle" /\ after # before) =>
                   /\ ProviderRaises(call)
                   /\ after.invoked = Append(before.invoked, after.model)
             /\ (ret'.op = "generate" /\ ret'.result = "provider error"
                     /\ before.pc # "idle" /\ after.pc = "idle") =>
                   /\ ProviderRaises(call)
                   /\ ret'.invoked = before.invoked
                   /\ before.invoked[Len(before.invoked)] = before.model
             /\ \A finish_reason \in {"stop", "length"} :
                   ProviderReturns(call, finish_reason) =>
                       /\ ret'.result = "returned"
                       /\ ret'.response.model_used = before.model
                       /\ ret'.invoked = before.invoked
                       /\ after.pc = "idle"]_vars

\* the selected model and two alternates failed and the error was raised
C19_Witness ==
    /\ ret.op = "generate"
    /\ ret.result = "provider error"
    /\ Len(ret.invoked) = 1 + max_fallbacks

\* the active models with the required capabilities
CapableModels(request) ==
    {model \in Elems(models) : model.is_active /\ HasCapabilities(model, request)}

\* C20: when a request gives a cost ceiling, 0 included, the model selected
\* has an estimated cost of at most the ceiling, and a ceiling below the
\* estimate of every active capable model makes generate fail with "no
\* suitable model" without a provider call.
C20_CostCeiling ==
    [][\A call \in Calls, request \in RouterRequests :
          (/\ request.cost_limit # NoLimit
           /\ CacheKey(request) \notin DOMAIN request_cache
           /\ Generate(call, request)) =>
              /\ calls'[call].pc = "primary" =>
                    EstimatedCost(request, ModelById(calls'[call].model)) <= request.cost_limit
              /\ (\A model \in CapableModels(request) :
                      EstimatedCost(request, model) > request.cost_limit) =>
                    /\ ret'.result = "no suitable model"
                    /\ calls' = calls]_vars

\* the registry with config added under its id would pass a cap
WouldExceedCap(config) ==
    \/ Cardinality(DOMAIN agents \cup {config.id}) > max_agents
    \/ TotalDeclared("cpu_cores") + config.cpu_cores > max_cpu_cores
    \/ TotalDeclared("memory_mb") + config.memory_mb > max_memory_mb
    \/ TotalDeclared("storage_mb") + config.storage_mb > max_storage_mb

WithinCaps ==
    /\ Cardinality(DOMAIN agents) <= max_agents
    /\ TotalDeclared("cpu_cores") <= max_cpu_cores
    /\ TotalDeclared("memory_mb") <= max_memory_mb
    /\ TotalDeclared("storage_mb") <= max_storage_mb

C22_TimeoutIsTerminal ==
    [][\A slot \in RuntimeSlots :
          TaskTimesOut(slot) =>
              LET call == runtime_calls[slot]
              IN /\ ret'.result = TIMEOUT
                 /\ task_objects'[call.task].status = TIMEOUT
                 /\ call.task \notin instances'[call.object].current_tasks
                 /\ \A other \in RuntimeSlots : runtime_calls'[other].task # call.task]_vars

\* C23: restart_agent on a RUNNING agent without current tasks returns True,
\* leaves the agent and its runtime instance RUNNING, and adds one to
\* restart_count.
C23_RestartReturnsToRunning ==
    [][\A agent_id \in RegistryAgentIds :
          (/\ agent_id \in DOMAIN agents
           /\ InstanceOf(agent_id).agent_state = RUNNING
           /\ InstanceOf(agent_id).current_tasks = {}
           /\ RestartAgent(1, agent_id)) =>
              LET before == InstanceOf(agent_id)
                  after == instances'[agents'[agent_id]]
              IN /\ ret'.result = TRUE
                 /\ after.agent_state = RUNNING
                 /\ after.state = RUNNING
                 /\ after.restart_count = before.restart_count + 1]_vars

\* C24: a response that generate obtained from a provider, through the
\* selected model or through a fallback model, is in the cache afterwards
\* exactly when the request has temperature < 0.3 and the call finished with
\* "stop"; every response in the cache is of a request with temperature < 0.3
\* and has finish_reason "stop".
C24_CachedExactlyWhenCacheable ==
    [][/\ \A call \in Calls, finish_reason \in {"stop", "length"} :
             ProviderReturns(call, finish_reason) =>
                 LET request == calls[call].request
                     cache_key == CacheKey(request)
                     stored == /\ cache_key \in DOMAIN request_cache'
                               /\ request_cache'[cache_key] = ret'.response
                 IN stored <=> (request.temperature < cache_temperature
                                    /\ finish_reason = "stop")
       /\ \A cache_key \in DOMAIN request_cache' :
             /\ cache_key[3] < cache_temperature
             /\ request_cache'[cache_key].finish_reason = "stop"]_vars

\* the candidates of a request: active, with every required capability,
\* within the cost ceiling when one is given, and with a healthy provider
Candidates(request) ==
    {model \in Elems(models) :
        /\ model.is_active
        /\ request.required_capabilities \subseteq model.capabilities
        /\ request.cost_limit # NoLimit =>
               EstimatedCost(request, model) <= request.cost_limit
        /\ model.provider \in providers}

\* C25: the model selected for a request is one of its candidates, with the
\* least cost_per_1k_tokens under "cost", the least avg_latency_ms under
\* "performance" and the greatest availability under "availability"; the
\* strategy in force is one of the four, and set_routing_strategy with another
\* value raises and leaves it as it was.
C25_SelectionFollowsStrategy ==
    [][/\ \A call \in Calls :
             (calls[call].pc = "idle" /\ calls'[call].pc = "primary") =>
                 LET request == calls'[call].request
                     selected == ModelById(calls'[call].model)
                 IN /\ selected \in Candidates(request)
                    /\ \A model \in Candidates(request) :
                          /\ routing_strategy = "cost" =>
                                selected.cost_per_1k_tokens <= model.cost_per_1k_tokens
                          /\ routing_strategy = "performance" =>
                                selected.avg_latency_ms <= model.avg_latency_ms
                          /\ routing_strategy = "availability" =>
                                selected.availability >= model.availability
       /\ routing_strategy' \in RoutingStrategies
       /\ SetRoutingStrategy("fastest") =>
             ret'.result = "ValueError" /\ UNCHANGED routing_strategy]_vars

\* C26: the tasks registered in an agent's current_tasks are never more than
\* its config.max_concurrent_tasks, however execute_task calls interleave.
C26_CurrentTasksWithinLimit ==
    \A object \in DOMAIN instances :
        Cardinality(instances[object].current_tasks)
            <= instances[object].config.max_concurrent_tasks

\* two requests of one scope key have both read a count that leaves one slot
\* and are both on their way to be admitted
ShareLastSlot(s1, s2) ==
    /\ s1 # s2
    /\ requests[s1].pc \in {"zadd", "expire"}
    /\ requests[s2].pc \in {"zadd", "expire"}
    /\ requests[s1].key = requests[s2].key
    /\ requests[s1].current_count = requests[s1].limit - 1
    /\ requests[s2].current_count = requests[s2].limit - 1

\* C27: with the Redis store, requests of one scope key whose remove, count
\* and add steps interleave are never admitted beyond the limit: two requests
\* never both pass the count when one slot remains, and with every admission
\* the admitted requests of the key in the window are at most the limit.
C27_ConcurrentChecksRespectLimit ==
    [][/\ \A s1, s2 \in Slots : ~ShareLastSlot(s1, s2)'
       /\ \A slot \in Slots :
             RedisExpire(slot) =>
                 AdmittedCount(admitted', requests[slot].key) <= requests[slot].limit]_vars

\* C28: when the request gives a cost ceiling, every alternate that generate
\* calls after a failure has an estimated cost of at most the ceiling.
C28_FallbackWithinCeiling ==
    [][\A call \in Calls :
          (calls'[call].pc = "fallback" /\ calls'[call].request.cost_limit # NoLimit) =>
              EstimatedCost(calls'[call].request, ModelById(calls'[call].model))
                  <= calls'[call].request.cost_limit]_vars

\* C29: the response generate returns was produced for a request of the
\* tenant that receives it, never one generated and cached for another
\* tenant (content[1] is the tenant the response was produced for).
C29_NoResponseOfAnotherTenant ==
    [][(ret'.op = "generate" /\ ret'.result = "returned") =>
          ret'.response.content[1] = ret'.request.tenant_id]_vars

\* C30: a task is tracked in at most one place: never in a priority queue and
\* in running_tasks at once, never twice in the queues, and in neither once
\* it is COMPLETED, FAILED or CANCELLED and its execution has ended.
C30_TrackedInOnePlace ==
    \A task_id \in Submitted :
        /\ ~(task_id \in Queued(task_queue) /\ task_id \in running_tasks)
        /\ Occurrences(task_queue, task_id) <= 1
        /\ (tasks[task_id].status \in Terminal /\ exec_pc[task_id] = "none") =>
               /\ task_id \notin Queued(task_queue)
               /\ task_id \notin running_tasks
====
